---- MODULE Spec2Model ----
(***************************************************************************)
(* A model of the cpdb-rs binding layer: the PrintJob lifecycle (job.rs),  *)
(* the constructors and lookups of the handle wrappers (frontend.rs,       *)
(* backend.rs, settings.rs, printer.rs) and the status translator          *)
(* (error.rs).  The native library is the environment: every native entry  *)
(* point's result is chosen from a small set of the values it can return.  *)
(***************************************************************************)
EXTENDS Integers, Sequences, FiniteSets, TLC

VARIABLES
    job,        \* slot -> the PrintJob wrapper held there (st, raw, id) and its history
    calls,      \* slot -> the native calls made through that PrintJob, in order
    crashed,    \* the process died inside a native call handed a null handle
    wrappers,   \* slot -> the wrapper a constructor, lookup, copy or load returned
    nativeLive, \* the native objects [kind, h] created and not yet deleted
    status,     \* from_status: the native status to translate
    context,    \* from_status: the context string to attach
    last        \* the last operation: its inputs, native calls and result

vars == <<job, calls, crashed, wrappers, nativeLive, status, context, last>>

(***************************************************************************)
(* Bounds of the model.                                                    *)
(***************************************************************************)
MaxJobs == 1        \* PrintJob slots
MaxOps == 3         \* submit/cancel calls made in one run, over all PrintJobs
MaxJobId == 1       \* the native submission returns -1 .. MaxJobId
MaxHandles == 2     \* native handles 1 .. MaxHandles per kind
MaxSlots == 2       \* wrapper slots of the constructor specification
MaxStatus == 12     \* from_status is applied to -MaxStatus .. MaxStatus and the i32 extremes

(***************************************************************************)
(* Pointers, strings and results.                                          *)
(***************************************************************************)
Null == 0
Handles == 1..MaxHandles
Pointers == {Null} \cup Handles

\* i32::MIN and i32::MAX
I32Min == -2147483647 - 1
I32Max == 2147483647

\* A host string (&str) is its byte sequence; byte 0 is an interior NUL.
StrA == <<97>>
StrEmpty == <<>>
StrNul == <<97, 0, 98>>
HostStrings == {StrEmpty, StrA, StrNul}

\* A native string pointer: null, or the bytes up to the terminator.
CNull == [isnull |-> TRUE, bytes |-> <<>>]
CStr(b) == [isnull |-> FALSE, bytes |-> b]

Ok(v) == [tag |-> "Ok", val |-> v]
Err(e) == [tag |-> "Err", err |-> e]
IsOk(r) == r.tag = "Ok"
IsErr(r) == r.tag = "Err"
Unit == "()"

\* The error kinds of CpdbError; msg is the detail string ("" where the kind has none).
NullPointer == [kind |-> "NullPointer", msg |-> ""]
InvalidPrinter == [kind |-> "InvalidPrinter", msg |-> ""]
JobFailed(m) == [kind |-> "JobFailed", msg |-> m]
BackendError(m) == [kind |-> "BackendError", msg |-> m]
FrontendError(m) == [kind |-> "FrontendError", msg |-> m]
Utf8Error == [kind |-> "Utf8Error", msg |-> ""]
NulError == [kind |-> "NulError", msg |-> ""]
\* frontend.rs names this kind; the enum of error.rs does not declare it.
ObjectNotFound(m, name) == [kind |-> "ObjectNotFound", msg |-> m, arg |-> name]

\* CString::new: fails on an interior NUL byte, otherwise the bytes themselves.
CString_new(s) ==
    IF \E i \in 1..Len(s) : s[i] = 0 THEN Err(NulError) ELSE Ok(s)

(***************************************************************************)
(* The status translator (error.rs).                                       *)
(***************************************************************************)
Digit(d) ==
    CASE d = 0 -> "0" [] d = 1 -> "1" [] d = 2 -> "2" [] d = 3 -> "3" [] d = 4 -> "4"
      [] d = 5 -> "5" [] d = 6 -> "6" [] d = 7 -> "7" [] d = 8 -> "8" [] d = 9 -> "9"

\* The decimal digits of a natural number, most significant first.
RECURSIVE Digits(_)
Digits(n) == IF n < 10 THEN Digit(n) ELSE Digits(n \div 10) \o Digit(n % 10)

\* format!("{}", n) for an i32: a minus sign and the digits of the magnitude.  The
\* magnitude of a negative n is taken as (-(n + 1)) + 1, which stays within i32.
I32Display(n) ==
    IF n >= 0 THEN Digits(n)
    ELSE LET m == -(n + 1)
             lo == (m % 10) + 1
             hi == IF lo = 10 THEN (m \div 10) + 1 ELSE m \div 10
         IN  "-" \o (IF hi > 0 THEN Digits(hi) ELSE "") \o Digit(lo % 10)

\* A translator with the first two rows of the table exchanged.
from_status_rows_swapped(st, ctx) ==
    CASE st = 1 -> NullPointer
      [] st = 0 -> InvalidPrinter
      [] st = 2 -> JobFailed(ctx)
      [] OTHER  -> BackendError("Unknown error: " \o I32Display(st))

\* CpdbError::from_status
from_status(st, ctx) ==
    CASE st = 0 -> NullPointer
      [] st = 1 -> InvalidPrinter
      [] st = 2 -> JobFailed(ctx)
      [] OTHER  -> BackendError("Unknown error: " \o I32Display(st))

(***************************************************************************)
(* String decoding (util.rs) and the Printer field accessors (printer.rs). *)
(***************************************************************************)
\* CStr::to_str: whether the bytes are well-formed UTF-8.
RECURSIVE Utf8Valid(_)
Utf8Valid(b) ==
    LET n == Len(b)
        Cont(i) == i <= n /\ b[i] >= 128 /\ b[i] <= 191
        Rest(k) == SubSeq(b, k + 1, n)
    IN  IF n = 0 THEN TRUE
        ELSE IF b[1] <= 127 THEN Utf8Valid(Rest(1))
        ELSE IF b[1] >= 194 /\ b[1] <= 223 THEN Cont(2) /\ Utf8Valid(Rest(2))
        ELSE IF b[1] = 224 THEN Cont(2) /\ b[2] >= 160 /\ Cont(3) /\ Utf8Valid(Rest(3))
        ELSE IF b[1] = 237 THEN Cont(2) /\ b[2] <= 159 /\ Cont(3) /\ Utf8Valid(Rest(3))
        ELSE IF b[1] >= 225 /\ b[1] <= 239 THEN Cont(2) /\ Cont(3) /\ Utf8Valid(Rest(3))
        ELSE IF b[1] = 240 THEN Cont(2) /\ b[2] >= 144 /\ Cont(3) /\ Cont(4) /\ Utf8Valid(Rest(4))
        ELSE IF b[1] = 244 THEN Cont(2) /\ b[2] <= 143 /\ Cont(3) /\ Cont(4) /\ Utf8Valid(Rest(4))
        ELSE IF b[1] >= 241 /\ b[1] <= 243 THEN Cont(2) /\ Cont(3) /\ Cont(4) /\ Utf8Valid(Rest(4))
        ELSE FALSE

\* A decoder that substitutes the empty string for bytes that are not UTF-8.
cstr_to_string_lossy(ptr) ==
    IF ptr.isnull THEN Err(NullPointer)
    ELSE IF ~Utf8Valid(ptr.bytes) THEN Ok(StrEmpty)
    ELSE Ok(ptr.bytes)

\* util::cstr_to_string
cstr_to_string(ptr) ==
    IF ptr.isnull THEN Err(NullPointer)
    ELSE IF ~Utf8Valid(ptr.bytes) THEN Err(Utf8Error)
    ELSE Ok(ptr.bytes)

\* The name field of a native printer object: unset, a name, or bytes that are not
\* UTF-8.  A printer p below is the wrapper's raw pointer with that field.
StrInvalid == <<255>>
NativeStrings == {CNull, CStr(StrA), CStr(StrInvalid)}

\* Printer::get_string_field: a null field reads as the empty string.
Printer_get_string_field(p, c_ptr, field_name_for_error) ==
    IF p.raw = Null
    THEN Err(BackendError("Printer object pointer is null when accessing " \o field_name_for_error))
    ELSE LET r == cstr_to_string(c_ptr)
         IN  IF IsOk(r) THEN r
             ELSE IF r.err = NullPointer THEN Ok(StrEmpty)
             ELSE r

\* Printer::name
Printer_name(p) == Printer_get_string_field(p, p.name, "name")

(***************************************************************************)
(* PrintJob (job.rs).  A wrapper is [raw, id]; the operations are          *)
(* functions from the wrapper and the native results to the new wrapper,   *)
(* the native calls made and the value returned.                           *)
(***************************************************************************)
NativeCall(fn, arg) == [fn |-> fn, arg |-> arg]

\* The option lists a caller passes: pairs of key and value.
OptionLists == {<<>>, <<<<StrA, StrA>>>>, <<<<StrA, StrA>>, <<StrA, StrNul>>>>}

\* The loop of PrintJob::new over the options: the first CString::new that fails ends it.
RECURSIVE OptionsEncode(_)
OptionsEncode(options) ==
    IF options = <<>> THEN Ok(<<>>)
    ELSE LET c_key == CString_new(options[1][1])
             c_val == CString_new(options[1][2])
         IN  IF IsErr(c_key) THEN c_key
             ELSE IF IsErr(c_val) THEN c_val
             ELSE LET rest == OptionsEncode(Tail(options))
                  IN  IF IsErr(rest) THEN rest
                      ELSE Ok(<<<<c_key.val, c_val.val>>>> \o rest.val)

\* PrintJob::new; nativeRet is what cpdb_new_print_job returns when it is reached.
PrintJob_new(printer, options, file_path, job_name, nativeRet) ==
    LET printer_name == Printer_name(printer)
        file_cstr == CString_new(file_path)
        job_cstr == CString_new(job_name)
        c_options == OptionsEncode(options)
    IN  IF IsErr(printer_name) THEN [res |-> printer_name, calls |-> <<>>]
        ELSE IF IsErr(file_cstr) THEN [res |-> file_cstr, calls |-> <<>>]
        ELSE IF IsErr(job_cstr) THEN [res |-> job_cstr, calls |-> <<>>]
        ELSE IF IsErr(c_options) THEN [res |-> c_options, calls |-> <<>>]
        ELSE [res |-> IF nativeRet = Null
                      THEN Err(JobFailed("Creation failed"))
                      ELSE Ok([raw |-> nativeRet, id |-> -1]),
              calls |-> <<NativeCall("cpdb_new_print_job", Len(c_options.val))>>]

\* PrintJob::submit; job_id is what cpdb_submit_print_job returns.
PrintJob_submit(self, job_id) ==
    [self  |-> IF job_id < 0 THEN self ELSE [self EXCEPT !.id = job_id],
     calls |-> <<NativeCall("cpdb_submit_print_job", self.raw)>>,
     res   |-> IF job_id < 0 THEN Err(JobFailed("Submission failed")) ELSE Ok(Unit)]

\* PrintJob::id; the Option is the sequence of at most one element.
PrintJob_id(self) == IF self.id > 0 THEN <<self.id>> ELSE <<>>

\* A cancel that forgets to null the handle after deleting it.
PrintJob_cancel_keeps_raw(self) ==
    IF self.raw # Null
    THEN [self  |-> [self EXCEPT !.id = -1],
          calls |-> (IF self.id > 0
                     THEN <<NativeCall("cpdb_cancel_job_by_id", self.id)>>
                     ELSE <<>>)
                    \o <<NativeCall("cpdb_delete_print_job", self.raw)>>,
          res   |-> Ok(Unit)]
    ELSE [self  |-> self,
          calls |-> <<>>,
          res   |-> Err(JobFailed("Job already completed"))]

\* PrintJob::cancel
PrintJob_cancel(self) ==
    IF self.raw # Null
    THEN [self  |-> [self EXCEPT !.raw = Null, !.id = -1],
          calls |-> (IF self.id > 0
                     THEN <<NativeCall("cpdb_cancel_job_by_id", self.id)>>
                     ELSE <<>>)
                    \o <<NativeCall("cpdb_delete_print_job", self.raw)>>,
          res   |-> Ok(Unit)]
    ELSE [self  |-> self,
          calls |-> <<>>,
          res   |-> Err(JobFailed("Job already completed"))]

\* A drop that releases the handle without the best-effort cancel.
PrintJob_drop_delete_only(self) ==
    IF self.raw # Null
    THEN [self |-> [self EXCEPT !.raw = Null, !.id = -1],
          calls |-> <<NativeCall("cpdb_delete_print_job", self.raw)>>,
          outcome |-> "returned"]
    ELSE [self |-> self, calls |-> <<>>, outcome |-> "returned"]

\* impl Drop for PrintJob: the result of cancel is discarded.
PrintJob_drop(self) ==
    IF self.raw # Null
    THEN LET c == PrintJob_cancel(self)
         IN  [self |-> c.self, calls |-> c.calls, outcome |-> "returned"]
    ELSE [self |-> self, calls |-> <<>>, outcome |-> "returned"]


(***************************************************************************)
(* Constructors, lookups, copies and loads of the other handle wrappers.   *)
(* A wrapper is [kind, raw]; each operator takes what the native entry     *)
(* point returned and gives the Result the caller gets.                    *)
(***************************************************************************)
Wrapper(kind, raw) == [kind |-> kind, raw |-> raw]

\* Frontend::new
Frontend_new(raw_frontend) ==
    IF raw_frontend = Null
    THEN Err(FrontendError("cpdbGetNewFrontendObj returned null"))
    ELSE Ok(Wrapper("Frontend", raw_frontend))

\* A from_raw that wraps whatever pointer it is given.
Printer_from_raw_unchecked(raw) == Ok(Wrapper("Printer", raw))

\* Printer::from_raw
Printer_from_raw(raw) ==
    IF raw = Null THEN Err(NullPointer) ELSE Ok(Wrapper("Printer", raw))

\* Frontend::get_printer; printer_ptr is what cpdbGetPrinter returns.
Frontend_get_printer(self, name, printer_ptr) ==
    LET c_name == CString_new(name)
    IN  IF IsErr(c_name) THEN c_name
        ELSE IF printer_ptr = Null
        THEN Err(ObjectNotFound("Printer with name '{}'", name))
        ELSE Printer_from_raw(printer_ptr)

\* Backend::new
Backend_new(backend_name, raw) ==
    LET c_name == CString_new(backend_name)
    IN  IF IsErr(c_name) THEN c_name
        ELSE IF raw = Null THEN Err(BackendError("Failed to create backend"))
        ELSE Ok(Wrapper("Backend", raw))

\* Backend::get_printer; printer_ptr is what cpdbGetPrinterFromBackend returns.
Backend_get_printer(self, printer_name, printer_ptr) ==
    LET c_name == CString_new(printer_name)
    IN  IF IsErr(c_name) THEN c_name
        ELSE IF printer_ptr = Null THEN Err(InvalidPrinter)
        ELSE Printer_from_raw(printer_ptr)

\* Settings::new
Settings_new(raw) ==
    IF raw = Null THEN Err(BackendError("Failed to create settings object"))
    ELSE Ok(Wrapper("Settings", raw))

\* A copy that shares the original's handle instead of wrapping the native copy.
Settings_copy_shallow(self, copy_raw) ==
    IF self.raw = Null THEN Err(NullPointer)
    ELSE IF copy_raw = Null THEN Err(BackendError("Failed to copy settings"))
    ELSE Ok(Wrapper("Settings", self.raw))

\* A copy that wraps whatever cpdbCopySettings returned.
Settings_copy_unchecked(self, copy_raw) ==
    IF self.raw = Null THEN Err(NullPointer)
    ELSE Ok(Wrapper("Settings", copy_raw))

\* Settings::copy; copy_raw is what cpdbCopySettings returns when it is reached.
Settings_copy(self, copy_raw) ==
    IF self.raw = Null THEN Err(NullPointer)
    ELSE IF copy_raw = Null THEN Err(BackendError("Failed to copy settings"))
    ELSE Ok(Wrapper("Settings", copy_raw))

\* impl Clone for Settings: copy().expect(..) unwinds when the copy failed.
Settings_clone(self, copy_raw) ==
    LET r == Settings_copy(self, copy_raw)
    IN  IF IsErr(r) THEN [tag |-> "Panic", msg |-> "Failed to clone settings"] ELSE r

\* Settings::read_from_disk
Settings_read_from_disk(filename, raw) ==
    LET c_filename == CString_new(filename)
    IN  IF IsErr(c_filename) THEN c_filename
        ELSE IF raw = Null THEN Err(BackendError("Failed to read settings from disk"))
        ELSE Ok(Wrapper("Settings", raw))

\* An Options::new that wraps whatever the native constructor returned.
Options_new_unchecked(raw) == Ok(Wrapper("Options", raw))

\* Options::new
Options_new(raw) ==
    IF raw = Null THEN Err(BackendError("Failed to create options object"))
    ELSE Ok(Wrapper("Options", raw))

\* Media::from_raw
Media_from_raw(raw) ==
    IF raw = Null THEN Err(NullPointer) ELSE Ok(Wrapper("Media", raw))

\* Printer::load_from_file; printer_ptr is what cpdbResurrectPrinterFromFile returns.
Printer_load_from_file(filename, printer_ptr) ==
    LET c_filename == CString_new(filename)
    IN  IF IsErr(c_filename) THEN c_filename
        ELSE IF printer_ptr = Null
        THEN Err(BackendError("Failed to load printer from file"))
        ELSE Printer_from_raw(printer_ptr)

\* The Drop implementations: the native delete each kind calls on a non-null handle.
\* Printer's drop only nulls its pointer.
DeleteFn(kind) ==
    CASE kind = "Frontend" -> "cpdbDeleteFrontendObj"
      [] kind = "Backend"  -> "cpdbDeleteBackendObj"
      [] kind = "Settings" -> "cpdbDeleteSettings"
      [] kind = "Options"  -> "cpdbDeleteOptions"
      [] kind = "Media"    -> "cpdbDeleteMedia"
      [] kind = "PrintJob" -> "cpdb_delete_print_job"
      [] OTHER             -> "none"

\* Drop implementations in which Printer, too, deletes its native object.
Wrapper_drop_releasing_printer(w) ==
    IF w.raw # Null
    THEN <<NativeCall(IF w.kind = "Printer" THEN "cpdbDeletePrinterObj" ELSE DeleteFn(w.kind),
                      w.raw)>>
    ELSE <<>>

Wrapper_drop(w) ==
    IF w.raw # Null /\ DeleteFn(w.kind) # "none"
    THEN <<NativeCall(DeleteFn(w.kind), w.raw)>>
    ELSE <<>>

(***************************************************************************)
(* The PrintJob lifecycle: a caller creates a job in a slot, submits and   *)
(* cancels it in any order, and drops it.                                  *)
(***************************************************************************)
JobSlots == 1..MaxJobs
NoJob == [st |-> "absent", w |-> [raw |-> Null, id |-> -1], h0 |-> Null, hist |-> "none", nops |-> 0]
NoOp == [op |-> "none"]

\* What cpdb_submit_print_job can return: a negative failure code or a job id.
SubmitRets == (-1)..MaxJobId

\* The submit and cancel calls made so far, over the slots 1..n.
RECURSIVE OpsMade(_)
OpsMade(n) == IF n = 0 THEN 0 ELSE job[n].nops + OpsMade(n - 1)

\* The native job handles not yet deleted.
LiveJobHandles == {o.h : o \in {x \in nativeLive : x.kind = "PrintJob"}}

\* The native side of a run of calls: cpdb_delete_print_job frees its handle.
Deleted(cs) == {[kind |-> "PrintJob", h |-> cs[i].arg] :
                    i \in {k \in 1..Len(cs) : cs[k].fn = "cpdb_delete_print_job"}}

\* The arguments the lifecycle passes to PrintJob::new: a printer with a name or a
\* printer wrapper holding null, and strings with and without an interior NUL.
JobPrinters == {[raw |-> h, name |-> CStr(StrA)] : h \in {Null, Null + 1}}
JobStrings == {StrA, StrNul}

JobInit ==
    /\ job = [j \in JobSlots |-> NoJob]
    /\ calls = [j \in JobSlots |-> <<>>]
    /\ crashed = FALSE
    /\ wrappers = <<>>
    /\ nativeLive = {}
    /\ status = 0
    /\ context = ""
    /\ last = NoOp

JobNew(j) ==
    /\ ~crashed
    /\ job[j].st = "absent"
    /\ \E printer \in JobPrinters, options \in OptionLists,
          file_path \in JobStrings, job_name \in JobStrings,
          nativeRet \in {Null} \cup (Handles \ LiveJobHandles) :
          LET r == PrintJob_new(printer, options, file_path, job_name, nativeRet)
          IN  /\ job' = [job EXCEPT ![j] =
                            IF IsOk(r.res)
                            THEN [st |-> "owned", w |-> r.res.val, h0 |-> r.res.val.raw,
                                  hist |-> "new", nops |-> 0]
                            ELSE @]
              /\ calls' = calls
              /\ nativeLive' = IF r.calls # <<>> /\ nativeRet # Null
                               THEN nativeLive \cup {[kind |-> "PrintJob", h |-> nativeRet]}
                               ELSE nativeLive
              /\ last' = [op |-> "new", j |-> j, pre |-> job[j].w, prev |-> job[j].hist,
                          calls |-> r.calls, res |-> r.res, ret |-> nativeRet,
                          outcome |-> "returned"]
    /\ UNCHANGED <<crashed, wrappers, status, context>>

\* submit on a live handle: the native call returns a failure code or a job id.
\* On a null handle the native call dereferences it: the process dies, or the
\* call returns whatever it finds.
JobSubmit(j) ==
    /\ ~crashed
    /\ job[j].st = "owned"
    /\ OpsMade(MaxJobs) < MaxOps
    /\ \E job_id \in SubmitRets, dies \in BOOLEAN :
          LET r == PrintJob_submit(job[j].w, job_id)
          IN  /\ dies => job[j].w.raw = Null
              /\ calls' = [calls EXCEPT ![j] = @ \o r.calls]
              /\ crashed' = dies
              /\ IF dies
                 THEN /\ job' = job
                      /\ last' = [op |-> "submit", j |-> j, pre |-> job[j].w,
                                  prev |-> job[j].hist, calls |-> r.calls,
                                  res |-> Err(JobFailed("process died")), ret |-> -1,
                                  outcome |-> "died"]
                 ELSE /\ job' = [job EXCEPT ![j].w = r.self,
                                            ![j].hist = IF IsOk(r.res) THEN "submit_ok"
                                                        ELSE "submit_err",
                                            ![j].nops = @ + 1]
                      /\ last' = [op |-> "submit", j |-> j, pre |-> job[j].w,
                                  prev |-> job[j].hist, calls |-> r.calls,
                                  res |-> r.res, ret |-> job_id, outcome |-> "returned"]
    /\ UNCHANGED <<wrappers, nativeLive, status, context>>

JobCancel(j) ==
    /\ ~crashed
    /\ job[j].st = "owned"
    /\ OpsMade(MaxJobs) < MaxOps
    /\ LET r == PrintJob_cancel(job[j].w)
       IN  /\ job' = [job EXCEPT ![j].w = r.self,
                                 ![j].hist = IF IsOk(r.res) THEN "cancel_ok" ELSE "cancel_err",
                                 ![j].nops = @ + 1]
           /\ calls' = [calls EXCEPT ![j] = @ \o r.calls]
           /\ nativeLive' = nativeLive \ Deleted(r.calls)
           /\ last' = [op |-> "cancel", j |-> j, pre |-> job[j].w, prev |-> job[j].hist,
                       calls |-> r.calls, res |-> r.res, ret |-> 0, outcome |-> "returned"]
    /\ UNCHANGED <<crashed, wrappers, status, context>>

JobDrop(j) ==
    /\ ~crashed
    /\ job[j].st = "owned"
    /\ LET r == PrintJob_drop(job[j].w)
       IN  /\ job' = [job EXCEPT ![j].w = r.self, ![j].st = "dropped", ![j].hist = "drop"]
           /\ calls' = [calls EXCEPT ![j] = @ \o r.calls]
           /\ nativeLive' = nativeLive \ Deleted(r.calls)
           /\ last' = [op |-> "drop", j |-> j, pre |-> job[j].w, prev |-> job[j].hist,
                       calls |-> r.calls, res |-> Ok(Unit), ret |-> 0,
                       outcome |-> r.outcome]
    /\ UNCHANGED <<crashed, wrappers, status, context>>

JobNext ==
    \/ \E j \in JobSlots : JobNew(j)
    \/ \E j \in JobSlots : JobSubmit(j)
    \/ \E j \in JobSlots : JobCancel(j)
    \/ \E j \in JobSlots : JobDrop(j)

Spec == JobInit /\ [][JobNext]_vars


(***************************************************************************)
(* The constructor specification: callers build, look up, copy, load and   *)
(* drop wrappers of every kind; the native side answers each call with a   *)
(* null pointer or a handle.                                               *)
(***************************************************************************)
Slots == 1..MaxSlots
NoWrapper == Wrapper("none", Null)

\* The handles of a kind the native side has handed out and not had deleted.
LiveOf(kind) == {o.h : o \in {x \in nativeLive : x.kind = kind}}
\* What a native constructor of a kind can return: null, or a handle not in use.
FreshOrNull(kind) == {Null} \cup (Handles \ LiveOf(kind))

HandleInit ==
    /\ job = <<>>
    /\ calls = <<>>
    /\ crashed = FALSE
    /\ wrappers = [s \in Slots |-> NoWrapper]
    /\ nativeLive = {}
    /\ status = 0
    /\ context = ""
    /\ last = NoOp

\* The caller stores an Ok wrapper in an empty slot; an Err leaves the slot empty.
\* reached: the call got as far as its native entry point, which returned ret (for
\* from_raw: the pointer the caller supplied).  A native object that was created
\* is live.
Returns(op, s, reached, ret, res, kind) ==
    /\ wrappers' = [wrappers EXCEPT ![s] = IF IsOk(res) THEN res.val ELSE @]
    /\ nativeLive' = IF reached /\ ret # Null /\ kind # "Printer"
                     THEN nativeLive \cup {[kind |-> kind, h |-> ret]}
                     ELSE nativeLive
    /\ last' = [op |-> op, slot |-> s, reached |-> reached, ret |-> ret, res |-> res]
    /\ UNCHANGED <<job, calls, crashed, status, context>>

Empty(s) == wrappers[s] = NoWrapper
Holds(s, kind) == wrappers[s].kind = kind
Encodes(str) == IsOk(CString_new(str))

HFrontendNew(s) ==
    /\ Empty(s)
    /\ \E ret \in FreshOrNull("Frontend") :
          Returns("Frontend::new", s, TRUE, ret, Frontend_new(ret), "Frontend")

HBackendNew(s) ==
    /\ Empty(s)
    /\ \E backend_name \in HostStrings, ret \in FreshOrNull("Backend") :
          Returns("Backend::new", s, Encodes(backend_name), ret,
                  Backend_new(backend_name, ret), "Backend")

HSettingsNew(s) ==
    /\ Empty(s)
    /\ \E ret \in FreshOrNull("Settings") :
          Returns("Settings::new", s, TRUE, ret, Settings_new(ret), "Settings")

HSettingsCopy(s, t) ==
    /\ Empty(s)
    /\ Holds(t, "Settings")
    /\ \E ret \in FreshOrNull("Settings") :
          Returns("Settings::copy", s, wrappers[t].raw # Null, ret,
                  Settings_copy(wrappers[t], ret), "Settings")

HSettingsClone(s, t) ==
    /\ Empty(s)
    /\ Holds(t, "Settings")
    /\ \E ret \in FreshOrNull("Settings") :
          Returns("Settings::clone", s, wrappers[t].raw # Null, ret,
                  Settings_clone(wrappers[t], ret), "Settings")

HSettingsRead(s) ==
    /\ Empty(s)
    /\ \E filename \in HostStrings, ret \in FreshOrNull("Settings") :
          Returns("Settings::read_from_disk", s, Encodes(filename), ret,
                  Settings_read_from_disk(filename, ret), "Settings")

HOptionsNew(s) ==
    /\ Empty(s)
    /\ \E ret \in FreshOrNull("Options") :
          Returns("Options::new", s, TRUE, ret, Options_new(ret), "Options")

HMediaFromRaw(s) ==
    /\ Empty(s)
    /\ \E raw \in FreshOrNull("Media") :
          Returns("Media::from_raw", s, TRUE, raw, Media_from_raw(raw), "Media")

\* Printer objects belong to the native side; a pointer to one may be handed out
\* any number of times.
HPrinterFromRaw(s) ==
    /\ Empty(s)
    /\ \E raw \in Pointers :
          Returns("Printer::from_raw", s, TRUE, raw, Printer_from_raw(raw), "Printer")

HPrinterLoad(s) ==
    /\ Empty(s)
    /\ \E filename \in HostStrings, ret \in Pointers :
          Returns("Printer::load_from_file", s, Encodes(filename), ret,
                  Printer_load_from_file(filename, ret), "Printer")

HFrontendGetPrinter(s, t) ==
    /\ Empty(s)
    /\ Holds(t, "Frontend")
    /\ \E name \in HostStrings, ret \in Pointers :
          Returns("Frontend::get_printer", s, Encodes(name), ret,
                  Frontend_get_printer(wrappers[t], name, ret), "Printer")

HBackendGetPrinter(s, t) ==
    /\ Empty(s)
    /\ Holds(t, "Backend")
    /\ \E name \in HostStrings, ret \in Pointers :
          Returns("Backend::get_printer", s, Encodes(name), ret,
                  Backend_get_printer(wrappers[t], name, ret), "Printer")

HPrintJobNew(s, t) ==
    /\ Empty(s)
    /\ Holds(t, "Printer")
    /\ \E name \in NativeStrings, options \in OptionLists,
          file_path \in JobStrings, job_name \in JobStrings,
          ret \in FreshOrNull("PrintJob") :
          LET r == PrintJob_new([raw |-> wrappers[t].raw, name |-> name],
                                options, file_path, job_name, ret)
              res == IF IsOk(r.res)
                     THEN Ok([kind |-> "PrintJob", raw |-> r.res.val.raw, id |-> r.res.val.id])
                     ELSE r.res
          IN  Returns("PrintJob::new", s, r.calls # <<>>, ret, res, "PrintJob")

HDrop(s) ==
    /\ ~Empty(s)
    /\ LET cs == Wrapper_drop(wrappers[s])
       IN  /\ wrappers' = [wrappers EXCEPT ![s] = NoWrapper]
           /\ nativeLive' = nativeLive \ {[kind |-> wrappers[s].kind, h |-> cs[i].arg] :
                                              i \in 1..Len(cs)}
           /\ last' = [op |-> "drop", slot |-> s, reached |-> cs # <<>>, ret |-> Null,
                       res |-> Ok(Unit)]
    /\ UNCHANGED <<job, calls, crashed, status, context>>

HandleNext ==
    \/ \E s \in Slots : HFrontendNew(s)
    \/ \E s \in Slots : HBackendNew(s)
    \/ \E s \in Slots : HSettingsNew(s)
    \/ \E s, t \in Slots : HSettingsCopy(s, t)
    \/ \E s, t \in Slots : HSettingsClone(s, t)
    \/ \E s \in Slots : HSettingsRead(s)
    \/ \E s \in Slots : HOptionsNew(s)
    \/ \E s \in Slots : HMediaFromRaw(s)
    \/ \E s \in Slots : HPrinterFromRaw(s)
    \/ \E s \in Slots : HPrinterLoad(s)
    \/ \E s, t \in Slots : HFrontendGetPrinter(s, t)
    \/ \E s, t \in Slots : HBackendGetPrinter(s, t)
    \/ \E s, t \in Slots : HPrintJobNew(s, t)
    \/ \E s \in Slots : HDrop(s)

HandleSpec == HandleInit /\ [][HandleNext]_vars

(***************************************************************************)
(* Properties of the PrintJob lifecycle.                                   *)
(***************************************************************************)
JobOps == {"new", "submit", "cancel", "drop"}
Returned == last.op \in JobOps /\ last.outcome = "returned"

\* The calls of cpdb_delete_print_job made through slot j on the handle it acquired.
DeleteCalls(j) ==
    {i \in 1..Len(calls[j]) : calls[j][i].fn = "cpdb_delete_print_job"}
DeleteCount(j) ==
    Cardinality({i \in DeleteCalls(j) : calls[j][i].arg = job[j].h0})

\* C1: a cancel that directly follows a successful cancel of the same job returns
\* Ok and makes no native call (a successful no-op).
C1_SecondCancelIsOkNoOp ==
    (last.op = "cancel" /\ last.prev = "cancel_ok")
        => (IsOk(last.res) /\ last.calls = <<>>)

\* C2: for every created PrintJob, cpdb_delete_print_job is called on its handle
\* at most once whatever was done with it, only on that handle, and exactly once
\* by the time the job has been dropped; until that call the handle is live and
\* the wrapper holds it, afterwards the wrapper holds null.
C2_DeleteExactlyOnce ==
    \A j \in JobSlots :
        job[j].st # "absent" =>
            /\ DeleteCount(j) <= 1
            /\ \A i \in DeleteCalls(j) : calls[j][i].arg = job[j].h0
            /\ job[j].st = "dropped" => DeleteCount(j) = 1
            /\ DeleteCount(j) = 0 => job[j].h0 \in LiveJobHandles
            /\ DeleteCount(j) = 0 <=> job[j].w.raw # Null

\* C2 witness: a job that was submitted, cancelled and then dropped.
C2_Witness ==
    \E j \in JobSlots :
        /\ job[j].st = "dropped"
        /\ job[j].nops >= 2
        /\ last.op = "drop" /\ last.prev = "cancel_ok"
        /\ DeleteCount(j) = 1

\* C3: an operation on a PrintJob whose handle cancel has released returns
\* without a native call, and no native entry point is ever handed a null handle.
C3_ReleasedHandleNeverPassed ==
    /\ \A j \in JobSlots : \A i \in 1..Len(calls[j]) :
          calls[j][i].fn \in {"cpdb_submit_print_job", "cpdb_delete_print_job"}
              => calls[j][i].arg # Null
    /\ (last.op \in {"submit", "cancel"} /\ last.pre.raw = Null)
          => (last.calls = <<>> /\ last.outcome = "returned")

\* C4: after a submit that returned Ok, id() is Some of the job id the native
\* submission returned, and a cancel that directly follows it returns Ok.
C4_SubmitOkGivesId ==
    /\ (last.op = "submit" /\ last.outcome = "returned" /\ IsOk(last.res))
          => PrintJob_id(job[last.j].w) = <<last.ret>>
    /\ (last.op = "cancel" /\ last.prev = "submit_ok") => IsOk(last.res)

\* C5: id() is None after new, unchanged by a failed submit (as is the handle),
\* None after cancel, and becomes Some only through a submit that returned Ok.
C5_OnlySubmitAssignsId ==
    /\ (last.op = "new" /\ IsOk(last.res)) => PrintJob_id(job[last.j].w) = <<>>
    /\ (last.op = "submit" /\ last.outcome = "returned" /\ IsErr(last.res))
          => job[last.j].w = last.pre
    /\ last.op = "cancel" => PrintJob_id(job[last.j].w) = <<>>
    /\ (Returned /\ PrintJob_id(last.pre) = <<>> /\ PrintJob_id(job[last.j].w) # <<>>)
          => (last.op = "submit" /\ IsOk(last.res))

\* C6: dropping a PrintJob whose handle is live calls cpdb_cancel_job_by_id (when
\* the id is valid) and then cpdb_delete_print_job, in that order and nothing
\* else; dropping an already cancelled job makes no native call; drop returns.
C6_DropCancelsThenReleases ==
    last.op = "drop" =>
        /\ last.outcome = "returned"
        /\ last.pre.raw # Null =>
              last.calls =
                  (IF last.pre.id > 0
                   THEN <<NativeCall("cpdb_cancel_job_by_id", last.pre.id)>>
                   ELSE <<>>)
                  \o <<NativeCall("cpdb_delete_print_job", last.pre.raw)>>
        /\ last.pre.raw = Null => last.calls = <<>>
        /\ job[last.j].w.raw = Null

\* C6 witness: a job with a valid id and a live handle has been dropped.
C6_Witness ==
    /\ last.op = "drop"
    /\ last.pre.raw # Null
    /\ last.pre.id > 0
    /\ Len(last.calls) = 2


(***************************************************************************)
(* Properties of the constructors, lookups, copies and loads.              *)
(***************************************************************************)
Constructors == {"Frontend::new", "Printer::from_raw", "PrintJob::new", "Backend::new",
                 "Settings::new", "Options::new", "Media::from_raw"}
Producers == Constructors \cup
             {"Settings::copy", "Settings::read_from_disk", "Printer::load_from_file",
              "Frontend::get_printer", "Backend::get_printer"}

\* A constructor was handed a null pointer by the native side (or by its caller).
NullConstruction == last.op \in Constructors /\ last.reached /\ last.ret = Null

\* The error kind each constructor gives for a null pointer.
NullErrorKind(op) ==
    CASE op = "Frontend::new"     -> "FrontendError"
      [] op = "Printer::from_raw" -> "NullPointer"
      [] op = "PrintJob::new"     -> "JobFailed"
      [] op = "Backend::new"      -> "BackendError"
      [] op = "Settings::new"     -> "BackendError"
      [] op = "Options::new"      -> "BackendError"
      [] op = "Media::from_raw"   -> "NullPointer"

\* C7 as stated: for every handle kind, construction from a null native pointer
\* fails with the NullPointer or the InvalidPrinter error kind.
C7_NullYieldsNullHandleOrInvalidPrinter ==
    NullConstruction =>
        (IsErr(last.res) /\ last.res.err.kind \in {"NullPointer", "InvalidPrinter"})

\* C7 amended: for every handle kind, construction from a null native pointer
\* fails with a typed error and leaves no wrapper: NullPointer for Printer and
\* Media, FrontendError for Frontend, BackendError for Backend, Settings and
\* Options, JobFailed for PrintJob.
C7_NullYieldsTypedError ==
    NullConstruction =>
        /\ IsErr(last.res)
        /\ last.res.err.kind = NullErrorKind(last.op)
        /\ wrappers[last.slot] = NoWrapper

\* C7 witness: the native frontend constructor returned null.
C7_Witness ==
    /\ NullConstruction
    /\ last.op = "Frontend::new"
    /\ IsErr(last.res)

\* C8: every wrapper returned as Ok by a constructor, lookup, copy or load holds
\* the non-null pointer the native side returned; a null native result gives Err;
\* no wrapper a caller holds has a null pointer.
C8_OkWrapperIsNonNull ==
    /\ last.op \in Producers =>
          /\ IsOk(last.res) =>
                (last.reached /\ last.res.val.raw # Null /\ last.res.val.raw = last.ret
                 /\ wrappers[last.slot] = last.res.val)
          /\ (last.reached /\ last.ret = Null) => IsErr(last.res)
          /\ IsErr(last.res) => wrappers[last.slot] = NoWrapper
    /\ \A s \in Slots : wrappers[s] # NoWrapper => wrappers[s].raw # Null

\* C8 witness: cpdbCopySettings returned null for a live Settings and copy gave Err.
C8_Witness ==
    /\ last.op = "Settings::copy"
    /\ last.reached
    /\ last.ret = Null
    /\ IsErr(last.res)
    /\ \E t \in Slots : wrappers[t].kind = "Settings" /\ wrappers[t].raw # Null

\* C9: when the native lookup finds no printer, Frontend::get_printer fails with
\* the InvalidPrinter error kind, which is not FrontendError.
C9_NotFoundIsInvalidPrinter ==
    (last.op = "Frontend::get_printer" /\ last.reached /\ last.ret = Null) =>
        /\ IsErr(last.res)
        /\ last.res.err.kind = "InvalidPrinter"
        /\ last.res.err.kind # "FrontendError"


(***************************************************************************)
(* The translator specification: from_status applied to one status and one *)
(* context drawn from the inputs below.                                    *)
(***************************************************************************)
StatusInputs == ((-MaxStatus)..MaxStatus) \cup {I32Min, I32Max}
Contexts == {"", "Backend job submission failed", "Submission failed"}

StatusInit ==
    /\ job = <<>>
    /\ calls = <<>>
    /\ crashed = FALSE
    /\ wrappers = <<>>
    /\ nativeLive = {}
    /\ status \in StatusInputs
    /\ context \in Contexts
    /\ last = NoOp

Translate ==
    /\ last = NoOp
    /\ last' = [op |-> "from_status", res |-> from_status(status, context)]
    /\ UNCHANGED <<job, calls, crashed, wrappers, nativeLive, status, context>>

StatusNext == Translate

StatusSpec == StatusInit /\ [][StatusNext]_vars

\* C10: from_status maps 0 to NullPointer, 1 to InvalidPrinter, 2 to JobFailed
\* with the context, and every other status, negative ones included, to
\* BackendError whose message ends in the decimal form of that status.
C10_FromStatusTable ==
    last.op = "from_status" =>
        /\ status = 0 => last.res = NullPointer
        /\ status = 1 => last.res = InvalidPrinter
        /\ status = 2 => last.res = JobFailed(context)
        /\ status \notin {0, 1, 2} =>
              last.res = BackendError("Unknown error: " \o ToString(status))

\* C10 witness: a negative status was translated to a BackendError.
C10_Witness ==
    /\ last.op = "from_status"
    /\ status < 0
    /\ last.res.kind = "BackendError"


(***************************************************************************)
(* Operations that forward to a native entry point (backend.rs,            *)
(* settings.rs, printer.rs, frontend.rs).  Each operator takes the         *)
(* arguments and what the native entry point returns when it is reached,   *)
(* and gives the Result and the native calls made, in order.               *)
(***************************************************************************)
\* An error whose message is a format string with a host string argument.
BackendErrorFor(m, arg) == [kind |-> "BackendError", msg |-> m, arg |-> arg]

Call(res, cs) == [res |-> res, calls |-> cs]
NoCall(res) == [res |-> res, calls |-> <<>>]
\* A native call with the strings and options handed to it.
NativeCallWith(fn, arg, strs, opts) == [fn |-> fn, arg |-> arg, strs |-> strs, opts |-> opts]

\* util::cstr_to_string_and_g_free: a non-null string is freed with g_free after decoding.
cstr_to_string_and_g_free(c_ptr) ==
    IF c_ptr.isnull THEN NoCall(Err(NullPointer))
    ELSE Call(cstr_to_string(c_ptr), <<NativeCall("g_free", c_ptr.bytes)>>)

\* A submit_job that reports every native failure as a BackendError.
Backend_submit_job_untranslated(self, printer_name, file_path, options, job_name, st) ==
    LET c_options == OptionsEncode(options)
        c_printer == CString_new(printer_name)
        c_file == CString_new(file_path)
        c_job == CString_new(job_name)
    IN  IF IsErr(c_options) THEN NoCall(c_options)
        ELSE IF IsErr(c_printer) THEN NoCall(c_printer)
        ELSE IF IsErr(c_file) THEN NoCall(c_file)
        ELSE IF IsErr(c_job) THEN NoCall(c_job)
        ELSE Call(IF st = 0 THEN Ok(Unit)
                  ELSE Err(BackendError("Backend job submission failed")),
                  <<NativeCallWith("cpdbSubmitJob", self.raw,
                                   <<c_printer.val, c_file.val, c_job.val>>, c_options.val)>>)

\* Backend::submit_job; st is what cpdbSubmitJob returns.
Backend_submit_job(self, printer_name, file_path, options, job_name, st) ==
    LET c_options == OptionsEncode(options)
        c_printer == CString_new(printer_name)
        c_file == CString_new(file_path)
        c_job == CString_new(job_name)
    IN  IF IsErr(c_options) THEN NoCall(c_options)
        ELSE IF IsErr(c_printer) THEN NoCall(c_printer)
        ELSE IF IsErr(c_file) THEN NoCall(c_file)
        ELSE IF IsErr(c_job) THEN NoCall(c_job)
        ELSE Call(IF st = 0 THEN Ok(Unit)
                  ELSE Err(from_status(st, "Backend job submission failed")),
                  <<NativeCallWith("cpdbSubmitJob", self.raw,
                                   <<c_printer.val, c_file.val, c_job.val>>, c_options.val)>>)

\* Settings::add_setting
Settings_add_setting(self, key, value) ==
    LET c_key == CString_new(key)
        c_value == CString_new(value)
    IN  IF self.raw = Null THEN NoCall(Err(NullPointer))
        ELSE IF IsErr(c_key) THEN NoCall(c_key)
        ELSE IF IsErr(c_value) THEN NoCall(c_value)
        ELSE Call(Ok(Unit),
                  <<NativeCallWith("cpdbAddSetting", self.raw, <<c_key.val, c_value.val>>, <<>>)>>)

\* Settings::clear_setting
Settings_clear_setting(self, key) ==
    LET c_key == CString_new(key)
    IN  IF self.raw = Null THEN NoCall(Err(NullPointer))
        ELSE IF IsErr(c_key) THEN NoCall(c_key)
        ELSE Call(Ok(Unit),
                  <<NativeCallWith("cpdbClearSetting", self.raw, <<c_key.val>>, <<>>)>>)

\* Settings::save_to_disk; result is what cpdbSaveSettingsToDisk returns.
Settings_save_to_disk(self, filename, result) ==
    LET c_filename == CString_new(filename)
    IN  IF self.raw = Null THEN NoCall(Err(NullPointer))
        ELSE IF IsErr(c_filename) THEN NoCall(c_filename)
        ELSE Call(IF result = 0 THEN Ok(Unit)
                  ELSE Err(BackendError("Failed to save settings to disk: " \o I32Display(result))),
                  <<NativeCallWith("cpdbSaveSettingsToDisk", self.raw, <<c_filename.val>>, <<>>)>>)

\* The field accessors of Printer (name is above): each reads one field of the
\* native object through get_string_field.
Printer_id(p) == Printer_get_string_field(p, p.id, "id")
Printer_location(p) == Printer_get_string_field(p, p.location, "location")
Printer_description(p) == Printer_get_string_field(p, p.info, "description/info")
Printer_make_and_model(p) == Printer_get_string_field(p, p.make_and_model, "make_and_model")
Printer_current_state_field(p) == Printer_get_string_field(p, p.state, "state_field")
Printer_backend_name(p) == Printer_get_string_field(p, p.backend_name, "backend_name")

\* A state query that reads an absent state as the empty string, as the field accessors do.
Printer_get_updated_state_as_field(p, c_state_ptr) ==
    IF p.raw = Null
    THEN NoCall(Err(BackendError("Printer object pointer is null for get_updated_state")))
    ELSE LET r == cstr_to_string_and_g_free(c_state_ptr)
         IN  Call(IF r.res = Err(NullPointer) THEN Ok(StrEmpty) ELSE r.res,
                  <<NativeCall("cpdbGetState", p.raw)>> \o r.calls)

\* Printer::get_updated_state; c_state_ptr is what cpdbGetState returns.
Printer_get_updated_state(p, c_state_ptr) ==
    IF p.raw = Null
    THEN NoCall(Err(BackendError("Printer object pointer is null for get_updated_state")))
    ELSE LET r == cstr_to_string_and_g_free(c_state_ptr)
         IN  Call(r.res, <<NativeCall("cpdbGetState", p.raw)>> \o r.calls)

\* Printer::print_single_file; job_id_ptr is what cpdbPrintFile returns.
Printer_print_single_file(p, file_path, job_id_ptr) ==
    LET c_file_path == CString_new(file_path)
    IN  IF p.raw = Null
        THEN NoCall(Err(BackendError("Printer object pointer is null for print_single_file")))
        ELSE IF IsErr(c_file_path) THEN NoCall(c_file_path)
        ELSE LET r == cstr_to_string_and_g_free(job_id_ptr)
             IN  Call(r.res,
                      <<NativeCallWith("cpdbPrintFile", p.raw, <<c_file_path.val>>, <<>>)>>
                      \o r.calls)

\* Printer::submit_job: the options parameter is unused; job_id_ptr is what
\* cpdbPrintFileWithJobTitle returns, released with libc::free.
Printer_submit_job(p, file_path, options, job_name, job_id_ptr) ==
    LET file_cstr == CString_new(file_path)
        job_cstr == CString_new(job_name)
    IN  IF p.raw = Null
        THEN NoCall(Err(BackendError("Printer object pointer is null for submit_job")))
        ELSE IF IsErr(file_cstr) THEN NoCall(file_cstr)
        ELSE IF IsErr(job_cstr) THEN NoCall(job_cstr)
        ELSE LET native == NativeCallWith("cpdbPrintFileWithJobTitle", p.raw,
                                          <<file_cstr.val, job_cstr.val>>, <<>>)
             IN  IF job_id_ptr.isnull
                 THEN Call(Err(BackendError("Job submission failed - no job ID returned")),
                           <<native>>)
                 ELSE Call(Ok(Unit), <<native, NativeCall("free", job_id_ptr.bytes)>>)

\* The literals "NA" and "Unknown" as bytes.
StrNA == <<78, 65>>
StrUnknown == <<85, 110, 107, 110, 111, 119, 110>>

\* A pointer to a native struct: null, or the fields read through it.
NullStruct == [isnull |-> TRUE]

\* Printer::get_option; option_ptr is what cpdbGetOption returns: null, or an
\* option whose default_value is a native string.
Printer_get_option(p, option_name, option_ptr) ==
    LET c_option_name == CString_new(option_name)
    IN  IF p.raw = Null
        THEN NoCall(Err(BackendError("Printer object pointer is null for get_option")))
        ELSE IF IsErr(c_option_name) THEN NoCall(c_option_name)
        ELSE Call(IF option_ptr.isnull
                  THEN Err(BackendErrorFor("Option '{}' not found", option_name))
                  ELSE IF option_ptr.default_value.isnull THEN Ok(StrNA)
                  ELSE cstr_to_string(option_ptr.default_value),
                  <<NativeCallWith("cpdbGetOption", p.raw, <<c_option_name.val>>, <<>>)>>)

\* Printer::get_default; value_ptr is what cpdbGetDefault returns.
Printer_get_default(p, option_name, value_ptr) ==
    LET c_option_name == CString_new(option_name)
    IN  IF p.raw = Null
        THEN NoCall(Err(BackendError("Printer object pointer is null for get_default")))
        ELSE IF IsErr(c_option_name) THEN NoCall(c_option_name)
        ELSE LET r == cstr_to_string_and_g_free(value_ptr)
             IN  Call(r.res,
                      <<NativeCallWith("cpdbGetDefault", p.raw, <<c_option_name.val>>, <<>>)>>
                      \o r.calls)

\* Printer::get_current; value_ptr is what cpdbGetCurrent returns.
Printer_get_current(p, option_name, value_ptr) ==
    LET c_option_name == CString_new(option_name)
    IN  IF p.raw = Null
        THEN NoCall(Err(BackendError("Printer object pointer is null for get_current")))
        ELSE IF IsErr(c_option_name) THEN NoCall(c_option_name)
        ELSE LET r == cstr_to_string_and_g_free(value_ptr)
             IN  Call(r.res,
                      <<NativeCallWith("cpdbGetCurrent", p.raw, <<c_option_name.val>>, <<>>)>>
                      \o r.calls)

\* Printer::get_media; media_ptr is what cpdbGetMedia returns.
Printer_get_media(p, media_name, media_ptr) ==
    LET c_media_name == CString_new(media_name)
    IN  IF p.raw = Null
        THEN NoCall(Err(BackendError("Printer object pointer is null for get_media")))
        ELSE IF IsErr(c_media_name) THEN NoCall(c_media_name)
        ELSE Call(IF media_ptr.isnull
                  THEN Err(BackendErrorFor("Media '{}' not found", media_name))
                  ELSE IF media_ptr.name.isnull THEN Ok(StrUnknown)
                  ELSE cstr_to_string(media_ptr.name),
                  <<NativeCallWith("cpdbGetMedia", p.raw, <<c_media_name.val>>, <<>>)>>)

\* A size query that returns the out-parameters whatever the status.
Printer_get_media_size_unchecked(p, media_name, result, width, length) ==
    LET c_media_name == CString_new(media_name)
    IN  IF p.raw = Null
        THEN NoCall(Err(BackendError("Printer object pointer is null for get_media_size")))
        ELSE IF IsErr(c_media_name) THEN NoCall(c_media_name)
        ELSE Call(Ok(<<width, length>>),
                  <<NativeCallWith("cpdbGetMediaSize", p.raw, <<c_media_name.val>>, <<>>)>>)

\* Printer::get_media_size; result is what cpdbGetMediaSize returns, width and
\* length what it left in the two out-parameters (0 and 0 if it wrote nothing).
Printer_get_media_size(p, media_name, result, width, length) ==
    LET c_media_name == CString_new(media_name)
    IN  IF p.raw = Null
        THEN NoCall(Err(BackendError("Printer object pointer is null for get_media_size")))
        ELSE IF IsErr(c_media_name) THEN NoCall(c_media_name)
        ELSE Call(IF result = 0 THEN Ok(<<width, length>>)
                  ELSE Err(BackendErrorFor("Failed to get media size for '{}'", media_name)),
                  <<NativeCallWith("cpdbGetMediaSize", p.raw, <<c_media_name.val>>, <<>>)>>)

\* Printer::get_media_margins; result is what cpdbGetMediaMargins returns and
\* margins_ptr what it left in the out-parameter (null if it wrote nothing).
Printer_get_media_margins(p, media_name, result, margins_ptr) ==
    LET c_media_name == CString_new(media_name)
    IN  IF p.raw = Null
        THEN NoCall(Err(BackendError("Printer object pointer is null for get_media_margins")))
        ELSE IF IsErr(c_media_name) THEN NoCall(c_media_name)
        ELSE Call(IF result = 0 /\ ~margins_ptr.isnull
                  THEN Ok("top: " \o I32Display(margins_ptr.top)
                          \o ", bottom: " \o I32Display(margins_ptr.bottom)
                          \o ", left: " \o I32Display(margins_ptr.left)
                          \o ", right: " \o I32Display(margins_ptr.right))
                  ELSE Err(BackendErrorFor("Failed to get media margins for '{}'", media_name)),
                  <<NativeCallWith("cpdbGetMediaMargins", p.raw, <<c_media_name.val>>, <<>>)>>)

\* Printer::save_to_file: cpdbPicklePrinterToFile returns nothing.
Printer_save_to_file(p, filename, frontend) ==
    LET c_filename == CString_new(filename)
    IN  IF p.raw = Null
        THEN NoCall(Err(BackendError("Printer object pointer is null for save_to_file")))
        ELSE IF IsErr(c_filename) THEN NoCall(c_filename)
        ELSE Call(Ok(Unit),
                  <<NativeCallWith("cpdbPicklePrinterToFile", p.raw, <<c_filename.val>>, <<>>)>>)

\* The loop of Frontend::get_printers over the returned array: the first null
\* element ends the call.
RECURSIVE PrintersFromRaw(_)
PrintersFromRaw(ptrs) ==
    IF ptrs = <<>> THEN Ok(<<>>)
    ELSE LET first == Printer_from_raw(ptrs[1])
         IN  IF IsErr(first) THEN first
             ELSE LET rest == PrintersFromRaw(Tail(ptrs))
                  IN  IF IsErr(rest) THEN rest ELSE Ok(<<first.val>> \o rest.val)

\* Frontend::get_printers; count is what cpdbGetPrinters returns and printers_ptr
\* the array it left in the out-parameter: [isnull, elems].  The array is freed
\* only when every element was wrapped.
Frontend_get_printers(self, count, printers_ptr) ==
    LET native == NativeCall("cpdbGetPrinters", self.raw)
    IN  IF count < 0
        THEN Call(Err(FrontendError("cpdbGetPrinters failed with code: " \o I32Display(count))),
                  <<native>>)
        ELSE IF printers_ptr.isnull THEN Call(Ok(<<>>), <<native>>)
        ELSE LET printers == PrintersFromRaw(SubSeq(printers_ptr.elems, 1, count))
             IN  IF IsErr(printers) THEN Call(printers, <<native>>)
                 ELSE Call(printers, <<native, NativeCall("free", "printers_ptr")>>)

(***************************************************************************)
(* The call specification: one forwarding operation at a time, on wrappers *)
(* holding a live handle, with the arguments and the native results drawn  *)
(* from the sets below.  last records the call: its host strings, its      *)
(* options, what the native side returned, the Result and the native calls.*)
(***************************************************************************)
MaxCallStatus == 3
MaxPrinters == 2

CallStatuses == (-1)..MaxCallStatus
\* The native printer object behind a Printer wrapper: its string fields.
CallPrinters ==
    {[raw |-> Null + 1, id |-> a, name |-> b, location |-> a, info |-> b,
      make_and_model |-> a, state |-> b, backend_name |-> a] :
        a \in NativeStrings, b \in NativeStrings}
\* The wrapper of a kind the calls are made on.
CallSelf(kind) == Wrapper(kind, Null + 1)
\* What the size and margin queries leave in their out-parameters.
MediaSizes == {<<0, 0>>, <<210, 297>>}
MarginPtrs == {NullStruct,
               [isnull |-> FALSE, top |-> 0, bottom |-> 0, left |-> 0, right |-> 0],
               [isnull |-> FALSE, top |-> 5, bottom |-> 12, left |-> -1, right |-> 3]}
MediaPtrs == {NullStruct} \cup {[isnull |-> FALSE, name |-> n] : n \in NativeStrings}
OptionPtrs == {NullStruct} \cup {[isnull |-> FALSE, default_value |-> n] : n \in NativeStrings}
\* The array cpdbGetPrinters leaves behind: none, or count pointers (none when it
\* failed with a negative count).
PrinterArrays(count) ==
    {NullStruct} \cup
    (IF count < 0 THEN {} ELSE {[isnull |-> FALSE, elems |-> e] : e \in [1..count -> Pointers]})

CallInit ==
    /\ job = <<>>
    /\ calls = <<>>
    /\ crashed = FALSE
    /\ wrappers = <<>>
    /\ nativeLive = {}
    /\ status = 0
    /\ context = ""
    /\ last = NoOp

\* The call returns r to the caller.  ret is what the native entry point returned
\* (a status where st is TRUE), known is FALSE where the native side reported that
\* it does not know the thing asked for.
Made(op, strs, options, st, ret, known, r) ==
    /\ last' = [op |-> op, strs |-> strs, options |-> options, st |-> st, ret |-> ret,
                known |-> known, res |-> r.res, calls |-> r.calls]
    /\ UNCHANGED <<job, calls, crashed, wrappers, nativeLive, status, context>>

CBackendSubmitJob ==
    \E pn \in JobStrings, fp \in JobStrings, jn \in JobStrings,
       o \in OptionLists, ret \in CallStatuses :
        Made("Backend::submit_job", <<pn, fp, jn>>, o, TRUE, ret, TRUE,
             Backend_submit_job(CallSelf("Backend"), pn, fp, o, jn, ret))

CSettingsAddSetting ==
    \E k \in HostStrings, v \in HostStrings :
        Made("Settings::add_setting", <<k, v>>, <<>>, FALSE, 0, TRUE,
             Settings_add_setting(CallSelf("Settings"), k, v))

CSettingsClearSetting ==
    \E k \in HostStrings :
        Made("Settings::clear_setting", <<k>>, <<>>, FALSE, 0, TRUE,
             Settings_clear_setting(CallSelf("Settings"), k))

CSettingsSaveToDisk ==
    \E f \in HostStrings, ret \in CallStatuses :
        Made("Settings::save_to_disk", <<f>>, <<>>, TRUE, ret, TRUE,
             Settings_save_to_disk(CallSelf("Settings"), f, ret))

\* The call is recorded with the array the native side handed back (arr).
CFrontendGetPrinters ==
    /\ \E count \in (-1)..MaxPrinters :
          \E arr \in PrinterArrays(count) :
              LET r == Frontend_get_printers(CallSelf("Frontend"), count, arr)
              IN  last' = [op |-> "Frontend::get_printers", strs |-> <<>>, options |-> <<>>,
                           st |-> TRUE, ret |-> count, known |-> TRUE, res |-> r.res,
                           calls |-> r.calls, arr |-> arr]
    /\ UNCHANGED <<job, calls, crashed, wrappers, nativeLive, status, context>>

\* The seven field accessors, each on its own field of the native object.
CPrinterField ==
    \E p \in CallPrinters :
        \/ Made("Printer::id", <<>>, <<>>, FALSE, p.id, TRUE, NoCall(Printer_id(p)))
        \/ Made("Printer::name", <<>>, <<>>, FALSE, p.name, TRUE, NoCall(Printer_name(p)))
        \/ Made("Printer::location", <<>>, <<>>, FALSE, p.location, TRUE,
                NoCall(Printer_location(p)))
        \/ Made("Printer::description", <<>>, <<>>, FALSE, p.info, TRUE,
                NoCall(Printer_description(p)))
        \/ Made("Printer::make_and_model", <<>>, <<>>, FALSE, p.make_and_model, TRUE,
                NoCall(Printer_make_and_model(p)))
        \/ Made("Printer::current_state_field", <<>>, <<>>, FALSE, p.state, TRUE,
                NoCall(Printer_current_state_field(p)))
        \/ Made("Printer::backend_name", <<>>, <<>>, FALSE, p.backend_name, TRUE,
                NoCall(Printer_backend_name(p)))

CPrinterGetUpdatedState ==
    \E p \in CallPrinters, ret \in NativeStrings :
        Made("Printer::get_updated_state", <<>>, <<>>, FALSE, ret, TRUE,
             Printer_get_updated_state(p, ret))

CPrinterPrintSingleFile ==
    \E p \in CallPrinters, fp \in HostStrings, ret \in NativeStrings :
        Made("Printer::print_single_file", <<fp>>, <<>>, FALSE, ret, TRUE,
             Printer_print_single_file(p, fp, ret))

CPrinterSubmitJob ==
    \E p \in CallPrinters, fp \in JobStrings, jn \in JobStrings,
       o \in OptionLists, ret \in {CNull, CStr(StrA)} :
        Made("Printer::submit_job", <<fp, jn>>, o, FALSE, ret, TRUE,
             Printer_submit_job(p, fp, o, jn, ret))

CPrinterGetOption ==
    \E p \in CallPrinters, n \in HostStrings, ret \in OptionPtrs :
        Made("Printer::get_option", <<n>>, <<>>, FALSE, ret, ~ret.isnull,
             Printer_get_option(p, n, ret))

CPrinterGetDefault ==
    \E p \in CallPrinters, n \in HostStrings, ret \in NativeStrings :
        Made("Printer::get_default", <<n>>, <<>>, FALSE, ret, TRUE,
             Printer_get_default(p, n, ret))

CPrinterGetCurrent ==
    \E p \in CallPrinters, n \in HostStrings, ret \in NativeStrings :
        Made("Printer::get_current", <<n>>, <<>>, FALSE, ret, TRUE,
             Printer_get_current(p, n, ret))

\* A medium the device does not know has no media object: cpdbGetMedia returns null.
CPrinterGetMedia ==
    \E p \in CallPrinters, n \in HostStrings, ret \in MediaPtrs :
        Made("Printer::get_media", <<n>>, <<>>, FALSE, ret, ~ret.isnull,
             Printer_get_media(p, n, ret))

\* For a medium the device does not know the native side writes nothing to the
\* out-parameters; the source fixes no status for that case, so every status is
\* drawn.
CPrinterGetMediaSize ==
    \E p \in CallPrinters, n \in HostStrings, ret \in CallStatuses,
       known \in BOOLEAN, size \in MediaSizes :
        /\ ~known => size = <<0, 0>>
        /\ Made("Printer::get_media_size", <<n>>, <<>>, TRUE, ret, known,
                Printer_get_media_size(p, n, ret, size[1], size[2]))

CPrinterGetMediaMargins ==
    \E p \in CallPrinters, n \in HostStrings, ret \in CallStatuses,
       known \in BOOLEAN, m \in MarginPtrs :
        /\ ~known => m = NullStruct
        /\ Made("Printer::get_media_margins", <<n>>, <<>>, TRUE, ret, known,
                Printer_get_media_margins(p, n, ret, m))

\* cpdbPicklePrinterToFile returns nothing: whether it wrote the file (saved) is
\* known to the native side only.
CPrinterSaveToFile ==
    \E p \in CallPrinters, f \in HostStrings, saved \in BOOLEAN :
        Made("Printer::save_to_file", <<f>>, <<>>, FALSE, saved, TRUE,
             Printer_save_to_file(p, f, CallSelf("Frontend")))

CPrintJobNew ==
    \E p \in CallPrinters, o \in OptionLists, fp \in JobStrings, jn \in JobStrings,
       ret \in Pointers :
        Made("PrintJob::new", <<fp, jn>>, o, FALSE, ret, TRUE,
             PrintJob_new(p, o, fp, jn, ret))

CallNext ==
    \/ CBackendSubmitJob
    \/ CSettingsAddSetting
    \/ CSettingsClearSetting
    \/ CSettingsSaveToDisk
    \/ CFrontendGetPrinters
    \/ CPrinterField
    \/ CPrinterGetUpdatedState
    \/ CPrinterPrintSingleFile
    \/ CPrinterSubmitJob
    \/ CPrinterGetOption
    \/ CPrinterGetDefault
    \/ CPrinterGetCurrent
    \/ CPrinterGetMedia
    \/ CPrinterGetMediaSize
    \/ CPrinterGetMediaMargins
    \/ CPrinterSaveToFile
    \/ CPrintJobNew

CallSpec == CallInit /\ [][CallNext]_vars

(***************************************************************************)
(* Claims about single calls, checked under CallSpec.                      *)
(***************************************************************************)
StatusOps == {"Backend::submit_job", "Settings::save_to_disk", "Printer::get_media_size",
              "Printer::get_media_margins", "Frontend::get_printers"}
\* The statuses an operation treats as failure: a negative count for get_printers,
\* a non-zero status for the others.
StatusFails(op, s) == IF op = "Frontend::get_printers" THEN s < 0 ELSE s # 0
NativeReached == last.op # "none" /\ last.calls # <<>>

\* C11: for every operation whose native entry point returns an integer status, a
\* failing status s produces exactly the error from_status yields for s (with the
\* context the error carries).
C11_FailingStatusIsFromStatus ==
    (last.op \in StatusOps /\ NativeReached /\ StatusFails(last.op, last.ret)) =>
        /\ IsErr(last.res)
        /\ last.res.err = from_status(last.ret, last.res.err.msg)

FieldAccessors == {"Printer::id", "Printer::name", "Printer::location", "Printer::description",
                   "Printer::make_and_model", "Printer::backend_name",
                   "Printer::current_state_field"}

\* C12: on a printer with a non-null handle, a null native string read by a field
\* accessor gives Ok with the empty string, and a null result of the live state
\* query gives an error (NullPointer), never Ok with the empty string.
C12_NullStringPerAccessor ==
    /\ (last.op \in FieldAccessors /\ last.ret.isnull) => last.res = Ok(StrEmpty)
    /\ (last.op = "Printer::get_updated_state" /\ last.ret.isnull) =>
          /\ last.res = Err(NullPointer)
          /\ last.res # Ok(StrEmpty)
          /\ last.calls = <<NativeCall("cpdbGetState", Null + 1)>>

\* C12 witness: the live state query got a null string and failed.
C12_Witness ==
    /\ last.op = "Printer::get_updated_state"
    /\ last.ret.isnull
    /\ IsErr(last.res)

MediaOps == {"Printer::get_media", "Printer::get_media_size", "Printer::get_media_margins"}

\* C13: for a media name the device does not know, get_media, get_media_size and
\* get_media_margins each return a typed error and no success value.
C13_UnknownMediaIsTypedError ==
    (last.op \in MediaOps /\ NativeReached /\ ~last.known) =>
        /\ IsErr(last.res)
        /\ last.res.err.kind = "BackendError"

\* C14: every key/value pair passed to Printer::submit_job reaches the native
\* submission call, and the call returns Ok when the native side returns a job id.
C14_OptionsReachNativeSubmission ==
    (last.op = "Printer::submit_job" /\ NativeReached) =>
        /\ \A i \in 1..Len(last.options) :
              \E k \in 1..Len(last.calls[1].opts) : last.calls[1].opts[k] = last.options[i]
        /\ ~last.ret.isnull => IsOk(last.res)

\* Some string argument of the last call, or some option key or value, has an
\* interior NUL byte.
SomeInteriorNul ==
    \/ \E i \in 1..Len(last.strs) : ~Encodes(last.strs[i])
    \/ \E i \in 1..Len(last.options) : \E k \in 1..2 : ~Encodes(last.options[i][k])

\* C16: if any string argument, option key or option value of a call has an
\* interior NUL byte, the call returns the encoding failure and invokes no native
\* entry point.
C16_InteriorNulFailsBeforeNative ==
    (last.op # "none" /\ SomeInteriorNul) =>
        /\ IsErr(last.res)
        /\ last.res.err.kind \in {"NulError", "Utf8Error"}
        /\ last.calls = <<>>

(***************************************************************************)
(* The decode specification: one of the two string-decode helpers applied  *)
(* to one native string, null or the bytes before its terminator.          *)
(***************************************************************************)
MaxStrLen == 4

\* CpdbError::cstr_to_string (error.rs): the same steps as util::cstr_to_string.
CpdbError_cstr_to_string(ptr) ==
    IF ptr.isnull THEN Err(NullPointer)
    ELSE IF ~Utf8Valid(ptr.bytes) THEN Err(Utf8Error)
    ELSE Ok(ptr.bytes)

\* Bytes of every class the decoder tells apart: ASCII, continuation bytes below
\* and above 160, and lead bytes of two-, three- and four-byte sequences.
DecodeBytes == {65, 128, 160, 195, 224, 237, 240}
DecodeInputs ==
    {CNull} \cup {CStr(b) : b \in UNION {[1..k -> DecodeBytes] : k \in 0..MaxStrLen}}

Decode ==
    /\ last = NoOp
    /\ \E ptr \in DecodeInputs :
          \/ last' = [op |-> "util::cstr_to_string", ptr |-> ptr, res |-> cstr_to_string(ptr)]
          \/ last' = [op |-> "CpdbError::cstr_to_string", ptr |-> ptr,
                      res |-> CpdbError_cstr_to_string(ptr)]
    /\ UNCHANGED <<job, calls, crashed, wrappers, nativeLive, status, context>>

DecodeNext == Decode

DecodeSpec == CallInit /\ [][DecodeNext]_vars

\* The encoding of one Unicode scalar value (Unicode 15, table 3-7): the code
\* point the bytes carry is in the range of their length and is no surrogate.
IsScalar(c) ==
    LET n == Len(c)
        Cont(i) == c[i] >= 128 /\ c[i] <= 191
        cp2 == (c[1] - 192) * 64 + (c[2] - 128)
        cp3 == (c[1] - 224) * 4096 + (c[2] - 128) * 64 + (c[3] - 128)
        cp4 == (c[1] - 240) * 262144 + (c[2] - 128) * 4096 + (c[3] - 128) * 64 + (c[4] - 128)
    IN  CASE n = 1 -> c[1] <= 127
          [] n = 2 -> c[1] >= 192 /\ c[1] <= 223 /\ Cont(2) /\ cp2 >= 128
          [] n = 3 -> /\ c[1] >= 224 /\ c[1] <= 239 /\ Cont(2) /\ Cont(3)
                      /\ cp3 >= 2048 /\ ~(cp3 >= 55296 /\ cp3 <= 57343)
          [] n = 4 -> /\ c[1] >= 240 /\ c[1] <= 247 /\ Cont(2) /\ Cont(3) /\ Cont(4)
                      /\ cp4 >= 65536 /\ cp4 <= 1114111
          [] OTHER -> FALSE

\* A byte string is well-formed UTF-8 when it is a concatenation of scalar encodings.
RECURSIVE WellFormed(_)
WellFormed(b) ==
    \/ b = <<>>
    \/ \E k \in 1..(IF Len(b) < 4 THEN Len(b) ELSE 4) :
          IsScalar(SubSeq(b, 1, k)) /\ WellFormed(SubSeq(b, k + 1, Len(b)))

DecodeOps == {"util::cstr_to_string", "CpdbError::cstr_to_string"}

\* C17: cstr_to_string returns the NullPointer error for a null pointer, the
\* identical string for every well-formed native string, and the Utf8Error for
\* every other byte sequence; a string it returns is always the input.
C17_DecodeExactOrTypedError ==
    last.op \in DecodeOps =>
        /\ last.ptr.isnull => last.res = Err(NullPointer)
        /\ (~last.ptr.isnull /\ WellFormed(last.ptr.bytes)) => last.res = Ok(last.ptr.bytes)
        /\ (~last.ptr.isnull /\ ~WellFormed(last.ptr.bytes)) => last.res = Err(Utf8Error)
        /\ IsOk(last.res) => last.res.val = last.ptr.bytes

\* C17 witness: a surrogate encoding was rejected by the decoder.
C17_Witness ==
    /\ last.op = "util::cstr_to_string"
    /\ last.ptr = CStr(<<237, 160, 128>>)
    /\ last.res = Err(Utf8Error)

(***************************************************************************)
(* The marshalling specification (util.rs): to_c_options on one option     *)
(* list, then reads of the returned array.  A buffer is [bytes, live];     *)
(* the array entries hold buffer addresses.                                *)
(***************************************************************************)
MaxOptions == 2

MarshalLists ==
    UNION {[1..n -> {<<k, v>> : k \in HostStrings, v \in HostStrings}] : n \in 0..MaxOptions}

\* util::to_c_options.  The CString of the i-th key is buffer 2i-1, that of the
\* i-th value buffer 2i; cstring_holder owns them and is dropped when the function
\* returns, so every buffer the returned entries point to has been freed.
to_c_options(options) ==
    LET enc == OptionsEncode(options)
    IN  IF IsErr(enc) THEN [res |-> enc, heap |-> <<>>]
        ELSE [res  |-> Ok([i \in 1..Len(options) |->
                              [option_name |-> 2 * i - 1, default_value |-> 2 * i]]),
              heap |-> [a \in 1..(2 * Len(options)) |->
                           [bytes |-> enc.val[(a + 1) \div 2][IF a % 2 = 1 THEN 1 ELSE 2],
                            live  |-> FALSE]]]

\* What reading the C string at an address can give: its bytes while the buffer
\* is live; after the free the read is undefined: the old bytes, whatever the
\* allocator or a later owner left there, or a fault.
ReadCStr(heap, a) ==
    IF heap[a].live THEN {Ok(heap[a].bytes)}
    ELSE {Ok(heap[a].bytes), Ok(StrEmpty), Ok(StrInvalid), Err("fault")}

MarshalOptions ==
    /\ last = NoOp
    /\ \E options \in MarshalLists :
          LET r == to_c_options(options)
          IN  last' = [op |-> "to_c_options", options |-> options, res |-> r.res,
                       heap |-> r.heap]
    /\ UNCHANGED <<job, calls, crashed, wrappers, nativeLive, status, context>>

\* The caller reads entry i of the returned array back.
ReadBack ==
    /\ last.op = "to_c_options"
    /\ IsOk(last.res)
    /\ \E i \in 1..Len(last.res.val) :
          \E n \in ReadCStr(last.heap, last.res.val[i].option_name),
             v \in ReadCStr(last.heap, last.res.val[i].default_value) :
              /\ last' = [op |-> "read_back", options |-> last.options,
                          len |-> Len(last.res.val), i |-> i, name |-> n, value |-> v]
              /\ crashed' = (IsErr(n) \/ IsErr(v))
    /\ UNCHANGED <<job, calls, wrappers, nativeLive, status, context>>

MarshalNext == MarshalOptions \/ ReadBack

MarshalSpec == CallInit /\ [][MarshalNext]_vars

\* C15: for every option list without interior NUL bytes, to_c_options returns an
\* array of the same length, and the i-th option_name and default_value read back
\* from it are the i-th key and value.
C15_ReadBackGivesKeyAndValue ==
    /\ (last.op = "to_c_options" /\ IsOk(OptionsEncode(last.options))) =>
          (IsOk(last.res) /\ Len(last.res.val) = Len(last.options))
    /\ last.op = "read_back" =>
          /\ ~crashed
          /\ last.len = Len(last.options)
          /\ last.name = Ok(last.options[last.i][1])
          /\ last.value = Ok(last.options[last.i][2])

(***************************************************************************)
(* The printer lifecycle: one Frontend, Printer wrappers obtained through  *)
(* it or loaded from a file, cloned, used and dropped in any order.  The   *)
(* wrappers variable is [frontend, dropped, printers]; a Printer wrapper   *)
(* carries two history fields: via (how its handle was acquired) and       *)
(* origin ("acquired" or "clone").                                         *)
(***************************************************************************)
NoPrinter == [kind |-> "none", raw |-> Null, via |-> "none", origin |-> "none"]

\* The native printer object behind a handle: its name and backend name.
NativePrinter(h) ==
    [raw |-> h, id |-> CNull, name |-> CStr(<<97 + h>>), location |-> CNull, info |-> CNull,
     make_and_model |-> CNull, state |-> CNull, backend_name |-> CStr(StrA)]

\* impl Clone for Printer: panics on a null handle, otherwise copies the pointer.
Printer_clone(self) ==
    IF self.raw = Null THEN [tag |-> "Panic"] ELSE Ok(Wrapper("Printer", self.raw))

\* Printer::try_clone
Printer_try_clone(self) ==
    IF self.raw = Null THEN Err(BackendError("Cannot clone null printer object"))
    ELSE Ok(Wrapper("Printer", self.raw))

LifeInit ==
    /\ job = <<>>
    /\ calls = <<>>
    /\ crashed = FALSE
    /\ wrappers = [frontend |-> NoWrapper, dropped |-> FALSE,
                   printers |-> [s \in Slots |-> NoPrinter]]
    /\ nativeLive = {}
    /\ status = 0
    /\ context = ""
    /\ last = NoOp

Tracked(w, via, origin) == [kind |-> w.kind, raw |-> w.raw, via |-> via, origin |-> origin]
NoSlot(s) == wrappers.printers[s] = NoPrinter
\* A Printer is stored in slot s when res is Ok; the native object behind a
\* non-null pointer the native side returned is live.
Acquired(op, s, via, reached, ret, res) ==
    /\ wrappers' = [wrappers EXCEPT !.printers[s] =
                       IF IsOk(res) THEN Tracked(res.val, via, "acquired") ELSE @]
    /\ nativeLive' = IF reached /\ ret # Null
                     THEN nativeLive \cup {[kind |-> "Printer", h |-> ret]}
                     ELSE nativeLive
    /\ last' = [op |-> op, slot |-> s, via |-> via, after_drop |-> wrappers.dropped,
                res |-> res, calls |-> <<>>]
    /\ UNCHANGED <<job, calls, crashed, status, context>>

LFrontendNew ==
    /\ wrappers.frontend = NoWrapper
    /\ ~wrappers.dropped
    /\ \E ret \in FreshOrNull("Frontend") :
          LET res == Frontend_new(ret)
          IN  /\ wrappers' = [wrappers EXCEPT !.frontend = IF IsOk(res) THEN res.val ELSE @]
              /\ nativeLive' = IF ret # Null
                               THEN nativeLive \cup {[kind |-> "Frontend", h |-> ret]}
                               ELSE nativeLive
              /\ last' = [op |-> "Frontend::new", res |-> res, calls |-> <<>>]
    /\ UNCHANGED <<job, calls, crashed, status, context>>

\* impl Drop for Frontend: cpdbDeleteFrontendObj on the handle.
LFrontendDrop ==
    /\ wrappers.frontend # NoWrapper
    /\ LET cs == Wrapper_drop(wrappers.frontend)
       IN  /\ wrappers' = [wrappers EXCEPT !.frontend = NoWrapper, !.dropped = TRUE]
           /\ nativeLive' = nativeLive \ {[kind |-> "Frontend", h |-> cs[i].arg] :
                                              i \in 1..Len(cs)}
           /\ last' = [op |-> "Frontend::drop", res |-> Ok(Unit), calls |-> cs]
    /\ UNCHANGED <<job, calls, crashed, status, context>>

\* Frontend::get_printer: the native side returns null or a printer of its table.
LGetPrinter(s) ==
    /\ wrappers.frontend # NoWrapper
    /\ NoSlot(s)
    /\ \E name \in JobStrings, ret \in Pointers :
          Acquired("Frontend::get_printer", s, "frontend", Encodes(name), ret,
                   Frontend_get_printer(wrappers.frontend, name, ret))

\* Printer::load_from_file: the native side returns null or a new printer object.
LLoadFromFile(s) ==
    /\ NoSlot(s)
    /\ \E filename \in JobStrings, ret \in FreshOrNull("Printer") :
          Acquired("Printer::load_from_file", s, "file", Encodes(filename), ret,
                   Printer_load_from_file(filename, ret))

PrinterLive(h) == [kind |-> "Printer", h |-> h] \in nativeLive

\* The clone is stored in slot t; no native call is made.
Cloned(op, s, t, res) ==
    /\ wrappers' = [wrappers EXCEPT !.printers[t] =
                       IF IsOk(res) THEN Tracked(res.val, wrappers.printers[s].via, "clone")
                       ELSE @]
    /\ last' = [op |-> op, slot |-> t, src |-> wrappers.printers[s],
                via |-> wrappers.printers[s].via, after_drop |-> wrappers.dropped,
                res |-> res, calls |-> <<>>]
    /\ crashed' = (res.tag = "Panic")
    /\ UNCHANGED <<job, calls, nativeLive, status, context>>

LClone(s, t) ==
    /\ ~NoSlot(s)
    /\ NoSlot(t)
    /\ Cloned("Printer::clone", s, t, Printer_clone(wrappers.printers[s]))

LTryClone(s, t) ==
    /\ ~NoSlot(s)
    /\ NoSlot(t)
    /\ Cloned("Printer::try_clone", s, t, Printer_try_clone(wrappers.printers[s]))

\* impl Drop for Printer: the native calls of the drop (none) take effect and the
\* wrapper is gone.
LPrinterDrop(s) ==
    /\ ~NoSlot(s)
    /\ LET cs == Wrapper_drop(wrappers.printers[s])
       IN  /\ wrappers' = [wrappers EXCEPT !.printers[s] = NoPrinter]
           /\ nativeLive' = nativeLive \ {[kind |-> "Printer", h |-> cs[i].arg] :
                                              i \in 1..Len(cs)}
           /\ last' = [op |-> "Printer::drop", slot |-> s, src |-> wrappers.printers[s],
                       via |-> wrappers.printers[s].via, after_drop |-> wrappers.dropped,
                       res |-> Ok(Unit), calls |-> cs]
    /\ UNCHANGED <<job, calls, crashed, status, context>>

\* Printer::name and Printer::backend_name on the wrapper in slot s.  Reading a
\* native object that has been deleted is undefined: the value or a fault.
LPrinterAccessor(s) ==
    /\ ~NoSlot(s)
    /\ LET w == wrappers.printers[s]
           obj == NativePrinter(w.raw)
       IN  \E f \in BOOLEAN :
             /\ f => ~PrinterLive(w.raw)
             /\ \/ last' = [op |-> "Printer::name", slot |-> s, src |-> w, via |-> w.via,
                            after_drop |-> wrappers.dropped, calls |-> <<>>,
                            res |-> IF f THEN Err("fault") ELSE Printer_name(obj)]
                \/ last' = [op |-> "Printer::backend_name", slot |-> s, src |-> w,
                            via |-> w.via, after_drop |-> wrappers.dropped, calls |-> <<>>,
                            res |-> IF f THEN Err("fault") ELSE Printer_backend_name(obj)]
             /\ crashed' = f
    /\ UNCHANGED <<job, calls, wrappers, nativeLive, status, context>>

LifeNext ==
    \/ LFrontendNew
    \/ LFrontendDrop
    \/ \E s \in Slots : LGetPrinter(s)
    \/ \E s \in Slots : LLoadFromFile(s)
    \/ \E s, t \in Slots : LClone(s, t)
    \/ \E s, t \in Slots : LTryClone(s, t)
    \/ \E s \in Slots : LPrinterDrop(s)
    \/ \E s \in Slots : LPrinterAccessor(s)

LifeSpec == LifeInit /\ [][LifeNext]_vars

\* The Printer wrappers that refer to a native handle.
Referring(h) == {s \in Slots : wrappers.printers[s].raw = h}

\* C18: releases balance acquires for a native printer handle: once every wrapper
\* that referred to it (the acquired one and its clones) has been dropped the
\* native object is free, and it is never freed while a wrapper refers to it.
C18_ReleasesBalanceAcquires ==
    \A h \in Handles :
        /\ (PrinterLive(h) /\ Referring(h) = {}) => FALSE
        /\ Referring(h) # {} => PrinterLive(h)

PrinterName(w) == Printer_name(NativePrinter(w.raw))
PrinterBackendName(w) == Printer_backend_name(NativePrinter(w.raw))

\* C19: on a printer with a non-null handle clone and try_clone both succeed, give
\* the same wrapper as each other, with the name and backend name of the original,
\* and make no native call; after a wrapper is dropped every other wrapper of the
\* same handle still refers to a live native object and its accessors succeed.
C19_CloneKeepsNameAndOriginal ==
    /\ last.op \in {"Printer::clone", "Printer::try_clone"} =>
          /\ last.src.raw # Null
          /\ IsOk(last.res)
          /\ Printer_clone(last.src) = Printer_try_clone(last.src)
          /\ PrinterName(last.res.val) = PrinterName(last.src)
          /\ PrinterBackendName(last.res.val) = PrinterBackendName(last.src)
          /\ IsOk(PrinterName(last.res.val))
          /\ last.calls = <<>>
          /\ wrappers.printers[last.slot].raw = last.src.raw
    /\ last.op = "Printer::drop" =>
          \A t \in Referring(last.src.raw) : PrinterLive(wrappers.printers[t].raw)
    /\ last.op \in {"Printer::name", "Printer::backend_name"} =>
          (IsOk(last.res) /\ ~crashed)

\* C19 witness: a clone was dropped while the wrapper it was cloned from remains.
C19_Witness ==
    /\ last.op = "Printer::drop"
    /\ last.src.origin = "clone"
    /\ \E t \in Referring(last.src.raw) : wrappers.printers[t].origin = "acquired"

\* C20: no operation is performed on a Printer obtained through the Frontend
\* after that Frontend has been dropped and its native object deleted.
C20_FrontendOutlivesItsPrinters ==
    (last.op \in {"Printer::name", "Printer::backend_name", "Printer::clone",
                  "Printer::try_clone"} /\ last.via = "frontend")
        => ~last.after_drop

SaveOps == {"Printer::save_to_file", "Settings::save_to_disk"}
\* The native save did not succeed: the pickle call wrote nothing, or the settings
\* save returned a non-zero status.
NativeSaveFailed ==
    IF last.op = "Printer::save_to_file" THEN ~last.ret ELSE last.ret # 0

\* C23: Printer::save_to_file and Settings::save_to_disk return an error whenever
\* the native save fails and Ok only when it succeeded.
C23_SaveFailureIsTypedError ==
    (last.op \in SaveOps /\ NativeReached) =>
        /\ NativeSaveFailed => IsErr(last.res)
        /\ IsOk(last.res) => ~NativeSaveFailed

\* C26: Frontend::get_printers fails with FrontendError exactly when the native
\* count is negative, and otherwise returns count printers, the i-th wrapping the
\* i-th handle of the native array; never fewer than the native call reported.
C26_GetPrintersIsCompleteSnapshot ==
    last.op = "Frontend::get_printers" =>
        /\ (IsErr(last.res) /\ last.res.err.kind = "FrontendError") <=> last.ret < 0
        /\ last.ret >= 0 =>
              /\ IsOk(last.res)
              /\ Len(last.res.val) = last.ret
              /\ \A i \in 1..last.ret : last.res.val[i].raw = last.arr.elems[i]

\* The native strings handed back by these calls are owned by the wrapper.
StringOps == {"Printer::get_updated_state", "Printer::print_single_file",
              "Printer::submit_job", "Printer::get_default", "Printer::get_current"}
\* The positions in the calls of the last operation at which fn was called.
CallsOf(fn) == {i \in 1..Len(last.calls) : last.calls[i].fn = fn}

\* C28: every non-null string the native library hands back is released exactly
\* once, after the native call, and always with g_free, the release function of the
\* allocator these strings come from.
C28_NativeStringFreedOnceWithGFree ==
    (last.op \in StringOps /\ NativeReached /\ ~last.ret.isnull) =>
        /\ Cardinality(CallsOf("g_free") \cup CallsOf("free")) = 1
        /\ CallsOf("g_free") = {Len(last.calls)}
        /\ last.calls[Len(last.calls)].arg = last.ret.bytes

\* C29: on every return path of Frontend::get_printers on which the native call
\* handed back a non-null array the array is freed exactly once, and an error is
\* returned only when no handle had been collected yet.
C29_PrinterArrayFreedOnEveryPath ==
    (last.op = "Frontend::get_printers" /\ ~last.arr.isnull) =>
        /\ Cardinality(CallsOf("free")) = 1
        /\ (last.ret > 0 /\ IsErr(last.res)) => last.arr.elems[1] = Null

(***************************************************************************)
(* Failure paths and ownership of the wrappers' handles (HandleSpec).      *)
(***************************************************************************)
FallibleOps == Producers \cup {"Settings::clone"}

\* The native entry point was reached and reported failure by a null pointer.
NativeNullFailure == last.op \in FallibleOps /\ last.reached /\ last.ret = Null

\* C25: an operation whose native entry point reports failure ends in a typed
\* error result and never in a panic, cloning a Settings included.
C25_NativeFailureIsTypedErrorNotPanic ==
    NativeNullFailure => IsErr(last.res)

OwnedKinds == {"Frontend", "Backend", "Settings", "Options", "Media"}
OwningSlots == {s \in Slots : wrappers[s].kind \in OwnedKinds}

\* C30: for Frontend, Backend, Settings, Options and Media every wrapper owns a
\* native handle no other wrapper holds (a Settings copy or clone has a fresh
\* one), the handle is live for as long as its wrapper is, and once the wrapper
\* is dropped the object is gone: the native delete ran on it once, at drop.
C30_OwnedHandleIsUniqueAndDeletedAtDrop ==
    /\ \A s, t \in OwningSlots :
          (s # t /\ wrappers[s].kind = wrappers[t].kind) => wrappers[s].raw # wrappers[t].raw
    /\ \A s \in OwningSlots :
          /\ wrappers[s].raw # Null
          /\ [kind |-> wrappers[s].kind, h |-> wrappers[s].raw] \in nativeLive
    /\ \A o \in nativeLive :
          o.kind \in OwnedKinds => \E s \in OwningSlots : wrappers[s] = Wrapper(o.kind, o.h)

\* A Settings wrapper was dropped while another one (its copy or original) lives on.
C30_Witness ==
    /\ last.op = "drop"
    /\ last.reached
    /\ \E t \in Slots : Holds(t, "Settings") /\ wrappers[t].raw \in LiveOf("Settings")

(***************************************************************************)
(* The option buffers of Backend::submit_job and PrintJob::new, one step   *)
(* of the function at a time (BufSpec).  last is the frame of the call in  *)
(* progress: heap holds the buffers of the CStrings made from the keys and *)
(* values, keep_alive the addresses of the CStrings that vector owns, and  *)
(* c_options the native option array, whose entries are addresses.         *)
(***************************************************************************)
Frame(fn, self, strs, options) ==
    [op |-> fn, self |-> self, strs |-> strs, options |-> options, pc |-> "loop",
     c_options |-> <<>>, keep_alive |-> <<>>, heap |-> <<>>, read |-> <<>>,
     res |-> [tag |-> "none"]]

\* Dropping the CStrings at the addresses addrs frees their buffers.
DropCStrings(heap, addrs) ==
    [a \in DOMAIN heap |-> IF a \in addrs THEN [heap[a] EXCEPT !.live = FALSE] ELSE heap[a]]

\* Leaving the function with res drops keep_alive and the CStrings still held in
\* locals.
FrameReturn(f, locals, res) ==
    [f EXCEPT !.pc = "returned", !.res = res,
              !.heap = DropCStrings(f.heap, {f.keep_alive[i] : i \in DOMAIN f.keep_alive}
                                                \cup locals)]

\* An iteration that takes the pointers of temporaries: both CStrings are dropped
\* at the end of the iteration.
OptionLoopStep_temporaries(f) ==
    LET i == Len(f.c_options) + 1
        c_key == CString_new(f.options[i][1])
        c_val == CString_new(f.options[i][2])
        a_key == Len(f.heap) + 1
        a_val == Len(f.heap) + 2
        with_key == [f EXCEPT !.heap = Append(@, [bytes |-> c_key.val, live |-> TRUE])]
    IN  IF IsErr(c_key) THEN FrameReturn(f, {}, c_key)
        ELSE IF IsErr(c_val) THEN FrameReturn(with_key, {a_key}, c_val)
        ELSE [f EXCEPT !.heap = @ \o <<[bytes |-> c_key.val, live |-> FALSE],
                                       [bytes |-> c_val.val, live |-> FALSE]>>,
                       !.c_options = Append(@, [option_name |-> a_key,
                                                default_value |-> a_val])]

\* One iteration of the loop over the options: the key and the value become
\* CStrings, which move into keep_alive (their buffers stay where they are), and
\* the new array entry points at the two buffers.  A failing CString::new returns.
OptionLoopStep(f) ==
    LET i == Len(f.c_options) + 1
        c_key == CString_new(f.options[i][1])
        c_val == CString_new(f.options[i][2])
        a_key == Len(f.heap) + 1
        a_val == Len(f.heap) + 2
        with_key == [f EXCEPT !.heap = Append(@, [bytes |-> c_key.val, live |-> TRUE])]
    IN  IF IsErr(c_key) THEN FrameReturn(f, {}, c_key)
        ELSE IF IsErr(c_val) THEN FrameReturn(with_key, {a_key}, c_val)
        ELSE [f EXCEPT !.heap = @ \o <<[bytes |-> c_key.val, live |-> TRUE],
                                       [bytes |-> c_val.val, live |-> TRUE]>>,
                       !.keep_alive = @ \o <<a_key, a_val>>,
                       !.c_options = Append(@, [option_name |-> a_key,
                                                default_value |-> a_val])]

\* What the native callee can read through the entries of the array.
OptionReads(f) ==
    {rd \in [DOMAIN f.c_options ->
                [name : UNION {ReadCStr(f.heap, a) : a \in DOMAIN f.heap},
                 value : UNION {ReadCStr(f.heap, a) : a \in DOMAIN f.heap}]] :
        \A i \in DOMAIN f.c_options :
            /\ rd[i].name \in ReadCStr(f.heap, f.c_options[i].option_name)
            /\ rd[i].value \in ReadCStr(f.heap, f.c_options[i].default_value)}

Entered(f) ==
    /\ last = NoOp
    /\ last' = f
    /\ UNCHANGED <<job, calls, crashed, wrappers, nativeLive, status, context>>

BSubmitJobEnter ==
    \E pn \in JobStrings, fp \in JobStrings, jn \in JobStrings, o \in MarshalLists :
        Entered(Frame("Backend::submit_job", CallSelf("Backend"), <<pn, fp, jn>>, o))

\* PrintJob::new reads the printer's name and encodes its two strings before the loop.
BPrintJobNewEnter ==
    \E p \in CallPrinters, fp \in JobStrings, jn \in JobStrings, o \in MarshalLists :
        LET f == Frame("PrintJob::new", p, <<fp, jn>>, o)
            r == PrintJob_new(p, <<>>, fp, jn, Null)
        IN  Entered(IF r.calls = <<>> THEN FrameReturn(f, {}, r.res) ELSE f)

InFrame(pc) == last # NoOp /\ last.pc = pc

BOptionLoop ==
    /\ InFrame("loop")
    /\ Len(last.c_options) < Len(last.options)
    /\ last' = OptionLoopStep(last)
    /\ UNCHANGED <<job, calls, crashed, wrappers, nativeLive, status, context>>

\* After the loop: Backend::submit_job encodes its three strings (a failure
\* returns), then the native call is made and reads the array; reading a freed
\* buffer can fault.
BNativeCall ==
    /\ InFrame("loop")
    /\ Len(last.c_options) = Len(last.options)
    /\ \E st \in CallStatuses, ret \in Pointers :
          LET r == IF last.op = "Backend::submit_job"
                   THEN Backend_submit_job(last.self, last.strs[1], last.strs[2],
                                           last.options, last.strs[3], st)
                   ELSE PrintJob_new(last.self, last.options, last.strs[1],
                                     last.strs[2], ret)
          IN  IF r.calls = <<>>
              THEN last' = FrameReturn(last, {}, r.res) /\ crashed' = crashed
              ELSE \E rd \in OptionReads(last) :
                      /\ last' = [last EXCEPT !.pc = "called", !.res = r.res, !.read = rd]
                      /\ crashed' = \E i \in DOMAIN rd : IsErr(rd[i].name) \/ IsErr(rd[i].value)
    /\ UNCHANGED <<job, calls, wrappers, nativeLive, status, context>>

\* The function returns its result: keep_alive goes out of scope.
BReturn ==
    /\ InFrame("called")
    /\ last' = FrameReturn(last, {}, last.res)
    /\ UNCHANGED <<job, calls, crashed, wrappers, nativeLive, status, context>>

BufNext ==
    \/ BSubmitJobEnter
    \/ BPrintJobNewEnter
    \/ BOptionLoop
    \/ BNativeCall
    \/ BReturn

BufSpec == CallInit /\ [][BufNext]_vars

\* The buffers the entries of the native option array point to.
Referenced(f) ==
    UNION {{f.c_options[i].option_name, f.c_options[i].default_value} : i \in DOMAIN f.c_options}

\* C27: in Backend::submit_job and PrintJob::new every key and value buffer the
\* native option array refers to stays allocated from the moment its entry is
\* built until the native call has returned (which therefore read the keys and
\* values as given), and all buffers are released once the function has returned,
\* on the success path and on every error path.
C27_OptionBuffersLiveUntilNativeReturn ==
    last # NoOp =>
        /\ last.pc \in {"loop", "called"} =>
              \A a \in Referenced(last) : last.heap[a].live
        /\ last.pc = "called" =>
              /\ ~crashed
              /\ Len(last.read) = Len(last.options)
              /\ \A i \in DOMAIN last.read :
                    /\ last.read[i].name = Ok(last.options[i][1])
                    /\ last.read[i].value = Ok(last.options[i][2])
        /\ last.pc = "returned" =>
              \A a \in DOMAIN last.heap : ~last.heap[a].live

\* The native call returned after reading two options, and the function has returned.
C27_Witness ==
    /\ last # NoOp
    /\ last.pc = "returned"
    /\ Len(last.read) = 2
    /\ Len(last.heap) = 4

\* An error path that had built an entry: the second option's value has an interior NUL.
C27_WitnessErrorPath ==
    /\ last # NoOp
    /\ last.pc = "returned"
    /\ IsErr(last.res)
    /\ Len(last.c_options) = 1
    /\ Len(last.heap) = 3

(***************************************************************************)
(* Printers used from several threads (ThreadSpec).  Printer is declared   *)
(* Send and Sync by unsafe impl, so a Printer (or a clone) can move to     *)
(* another thread and a &Printer can be shared with it; the methods take   *)
(* &self and hold no lock.  wrappers[t] is what thread t holds, calls[t]   *)
(* the native call thread t is inside of (at most one).                    *)
(***************************************************************************)
MaxThreads == 2
Threads == 1..MaxThreads

\* The native functions the &self methods of Printer call with the handle.
PrinterCalls == {"cpdbGetState", "cpdbIsAcceptingJobs", "cpdbPrintFile"}

\* A &Printer borrowed from the Printer that thread t owns.
PrinterRef(t) == [kind |-> "&Printer", raw |-> wrappers[t].raw, of |-> t]

ThreadInit ==
    /\ job = <<>>
    /\ calls = [t \in Threads |-> <<>>]
    /\ crashed = FALSE
    /\ wrappers = [t \in Threads |-> NoWrapper]
    /\ nativeLive = {}
    /\ status = 0
    /\ context = ""
    /\ last = NoOp

Idle(t) == calls[t] = <<>>
HeldRaws == {wrappers[t].raw : t \in Threads}
Borrowed(t) == \E u \in Threads : wrappers[u].kind = "&Printer" /\ wrappers[u].of = t

\* A thread wraps a native printer no wrapper holds yet (the contract of from_raw).
TFromRaw(t) ==
    /\ Empty(t)
    /\ \E raw \in Handles \ HeldRaws :
          wrappers' = [wrappers EXCEPT ![t] = Printer_from_raw(raw).val]
    /\ UNCHANGED <<job, calls, crashed, nativeLive, status, context, last>>

\* Send: thread t clones its Printer and moves the clone to thread u.
TSendClone(t, u) ==
    /\ Holds(t, "Printer")
    /\ Idle(t)
    /\ Empty(u)
    /\ \E r \in {Printer_clone(wrappers[t]), Printer_try_clone(wrappers[t])} :
          /\ IsOk(r)
          /\ wrappers' = [wrappers EXCEPT ![u] = r.val]
    /\ UNCHANGED <<job, calls, crashed, nativeLive, status, context, last>>

\* Sync: thread t lends a &Printer to thread u.
TShareRef(t, u) ==
    /\ Holds(t, "Printer")
    /\ Empty(u)
    /\ wrappers' = [wrappers EXCEPT ![u] = PrinterRef(t)]
    /\ UNCHANGED <<job, calls, crashed, nativeLive, status, context, last>>

\* A &self method passes its null check and enters the native function.
TEnter(t) ==
    /\ wrappers[t].kind \in {"Printer", "&Printer"}
    /\ wrappers[t].raw # Null
    /\ Idle(t)
    /\ \E fn \in PrinterCalls :
          calls' = [calls EXCEPT ![t] = <<NativeCall(fn, wrappers[t].raw)>>]
    /\ UNCHANGED <<job, crashed, wrappers, nativeLive, status, context, last>>

\* The native function returns.
TExit(t) ==
    /\ ~Idle(t)
    /\ calls' = [calls EXCEPT ![t] = <<>>]
    /\ UNCHANGED <<job, crashed, wrappers, nativeLive, status, context, last>>

\* A thread drops its Printer (no native call is made) or ends its borrow; a
\* borrowed Printer outlives its borrows.
TDrop(t) ==
    /\ ~Empty(t)
    /\ Idle(t)
    /\ ~Borrowed(t)
    /\ Holds(t, "Printer") => Wrapper_drop(wrappers[t]) = <<>>
    /\ wrappers' = [wrappers EXCEPT ![t] = NoWrapper]
    /\ UNCHANGED <<job, calls, crashed, nativeLive, status, context, last>>

ThreadNext ==
    \/ \E t \in Threads : TFromRaw(t)
    \/ \E t, u \in Threads : TSendClone(t, u)
    \/ \E t, u \in Threads : TShareRef(t, u)
    \/ \E t \in Threads : TEnter(t)
    \/ \E t \in Threads : TExit(t)
    \/ \E t \in Threads : TDrop(t)

ThreadSpec == ThreadInit /\ [][ThreadNext]_vars

\* C21: in no interleaving are two threads inside native calls on the same native
\* printer handle at the same time, clones and try_clones included.
C21_NoConcurrentNativeCallsOnOneHandle ==
    \A t, u \in Threads :
        (t # u /\ ~Idle(t) /\ ~Idle(u)) => calls[t][1].arg # calls[u][1].arg

(***************************************************************************)
(* Streaming discovery (StreamSpec).  Frontend::get_printers_channel is    *)
(* called by tests/integration.rs but frontend.rs does not define it; the  *)
(* bridge is modelled as specified: a persistent callback forwards each    *)
(* discovered handle, or the error of wrapping it, onto an unbounded       *)
(* ordered channel; a stop request halts further callback invocations and  *)
(* what is queued is still delivered.  calls holds the pointers the native *)
(* side has invoked the callback with, last the session: the channel, the  *)
(* items the consumer has received, and whether discovery is running.      *)
(***************************************************************************)
MaxCallbacks == 3

StreamInit ==
    /\ job = <<>>
    /\ calls = <<>>
    /\ crashed = FALSE
    /\ wrappers = <<>>
    /\ nativeLive = {}
    /\ status = 0
    /\ context = ""
    /\ last = NoOp

Streaming == last # NoOp

\* The caller opens the stream and gets the receiving end.
SGetPrintersChannel ==
    /\ last = NoOp
    /\ last' = [op |-> "Frontend::get_printers_channel", channel |-> <<>>,
                received |-> <<>>, listing |-> TRUE]
    /\ UNCHANGED <<job, calls, crashed, wrappers, nativeLive, status, context>>

\* The native side invokes the callback with a printer pointer (null: a malformed
\* handle); the callback wraps it and sends the result.
SCallback ==
    /\ Streaming
    /\ last.listing
    /\ Len(calls) < MaxCallbacks
    /\ \E printer_ptr \in Pointers :
          /\ calls' = Append(calls, printer_ptr)
          /\ last' = [last EXCEPT !.channel = Append(@, Printer_from_raw(printer_ptr))]
    /\ UNCHANGED <<job, crashed, wrappers, nativeLive, status, context>>

\* The consumer takes the next item off the channel.
SRecv ==
    /\ Streaming
    /\ last.channel # <<>>
    /\ last' = [last EXCEPT !.received = Append(@, Head(last.channel)),
                            !.channel = Tail(@)]
    /\ UNCHANGED <<job, calls, crashed, wrappers, nativeLive, status, context>>

\* Frontend::stop_listing_printers: the native side makes no further invocations.
SStop ==
    /\ Streaming
    /\ last.listing
    /\ last' = [last EXCEPT !.listing = FALSE]
    /\ UNCHANGED <<job, calls, crashed, wrappers, nativeLive, status, context>>

StreamNext ==
    \/ SGetPrintersChannel
    \/ SCallback
    \/ SRecv
    \/ SStop

StreamSpec == StreamInit /\ [][StreamNext]_vars

SettingsContents == {<<>>, <<<<StrA, StrA>>>>}
NoContent == <<"none">>

PersistInit ==
    /\ job = <<>>
    /\ calls = <<>>
    /\ crashed = FALSE
    /\ wrappers = <<>>
    /\ nativeLive = {}
    /\ status = 0
    /\ context = ""
    /\ last = [op |-> "none", path |-> StrEmpty, res |-> Ok(Unit), loaded |-> NoContent,
               saved |-> {}]

FilesAt(files, path) == {f \in files : f.path = path}
WriteFile(files, kind, path, content) ==
    (files \ FilesAt(files, path)) \cup {[kind |-> kind, path |-> path, content |-> content]}

\* A save: the native side wrote the file or not (wrote), the caller got res.
Saved(op, kind, path, content, wrote, res) ==
    /\ nativeLive' = IF wrote THEN WriteFile(nativeLive, kind, path, content) ELSE nativeLive
    /\ last' = [op |-> op, path |-> path, res |-> res, loaded |-> NoContent,
                saved |-> IF IsOk(res) THEN WriteFile(last.saved, kind, path, content)
                          ELSE last.saved]
    /\ UNCHANGED <<job, calls, crashed, wrappers, status, context>>

\* A load: the caller got res, and with it an object of the given content.
Loaded(op, path, content, res) ==
    /\ last' = [op |-> op, path |-> path, res |-> res,
                loaded |-> IF IsOk(res) THEN content ELSE NoContent, saved |-> last.saved]
    /\ UNCHANGED <<job, calls, crashed, wrappers, nativeLive, status, context>>

\* What a native load of a kind returns for a path: null, or a new object and its content.
NativeLoads(kind, path) ==
    LET fs == {f \in FilesAt(nativeLive, path) : f.kind = kind}
    IN  IF fs = {} THEN {[ptr |-> Null, content |-> NoContent]}
        ELSE {[ptr |-> h, content |-> f.content] : h \in Handles, f \in fs}

PSettingsSave ==
    \E f \in HostStrings, content \in SettingsContents, result \in CallStatuses :
        LET r == Settings_save_to_disk(CallSelf("Settings"), f, result)
        IN  Saved("Settings::save_to_disk", "Settings", f, content,
                  r.calls # <<>> /\ result = 0, r.res)

PSettingsRead ==
    \E f \in HostStrings :
        \E n \in NativeLoads("Settings", f) :
            Loaded("Settings::read_from_disk", f, n.content, Settings_read_from_disk(f, n.ptr))

\* cpdbPicklePrinterToFile returns nothing; wrote is known to the native side only.
PPrinterSave ==
    \E h \in Handles, f \in HostStrings, wrote \in BOOLEAN :
        LET p == NativePrinter(h)
            r == Printer_save_to_file(p, f, CallSelf("Frontend"))
        IN  Saved("Printer::save_to_file", "Printer", f, p.name.bytes,
                  r.calls # <<>> /\ wrote, r.res)

PPrinterLoad ==
    \E f \in HostStrings :
        \E n \in NativeLoads("Printer", f) :
            Loaded("Printer::load_from_file", f, n.content, Printer_load_from_file(f, n.ptr))

PersistNext ==
    \/ PSettingsSave
    \/ PSettingsRead
    \/ PPrinterSave
    \/ PPrinterLoad

PersistSpec == PersistInit /\ [][PersistNext]_vars

LoadedKind ==
    IF last.op = "Settings::read_from_disk" THEN "Settings"
    ELSE IF last.op = "Printer::load_from_file" THEN "Printer" ELSE "none"

\* C22: loading from a file that a Printer (a Settings) was saved to yields a valid
\* handle whose name (whose added options) equals the saved one's.
C22_SaveThenLoadRoundTrips ==
    \A s \in last.saved :
        (s.kind = LoadedKind /\ s.path = last.path) =>
            /\ IsOk(last.res)
            /\ last.res.val.raw # Null
            /\ last.loaded = s.content

\* The Settings half of C22 on its own.
SettingsRoundTrips ==
    LoadedKind = "Settings" => C22_SaveThenLoadRoundTrips

====
